---- MODULE Spec2Model ----
(***************************************************************************)
(* A model of the mos 6502 assembler core: the Segment byte buffer         *)
(* (core/codegen/segment.rs), the SegmentMerger (core/io/segment_merger.rs)*)
(* the worklist code generator (core/codegen/mod.rs), the merge loop of    *)
(* the build command (commands/build.rs), the parser                       *)
(* (core/parser/mod.rs) and the text edits of the language server          *)
(* (lsp/formatting.rs).                                                    *)
(*                                                                         *)
(* These specifications share the module:                                  *)
(*   SegSpec    sequences of Segment::set / Segment::set_current_pc calls  *)
(*   MergeSpec  sequences of SegmentMerger::merge calls into one target    *)
(*   Spec       codegen() run on every program over a statement alphabet   *)
(*   BranchSpec codegen() run on programs of branch instructions           *)
(*   LiveSpec   Spec with weak fairness on the loop of codegen()           *)
(*   DataSpec   codegen() run on programs of data directives               *)
(*   VarSpec    codegen() run on programs that redefine a variable         *)
(*   BuildSpec  the merge loop of build_command over a segment map         *)
(*   ParseSpec  parse() and c_comment() applied to short texts             *)
(*   PcSpec     codegen() run on programs that use `*` and immediates      *)
(*   ExpectSpec expect() around take(1) and the comment parsers            *)
(*   RkSpec     sequences of RangeKeeper::push calls                       *)
(*   FormatSpec the loop of get_text_edits over short diffs                *)
(***************************************************************************)
EXTENDS Integers, Sequences, FiniteSets, TLC

VARIABLES
    \* ---- build profile and outcome, shared by the specifications
    overflow_checks,   \* TRUE: debug build (arithmetic overflow panics); FALSE: release (wraps)
    status,            \* "running" | "ok" | "err" | "panicked"
    \* ---- Segment (the codegen context's "Default" segment, or the segment under test)
    segment,           \* [pc, range, data]
    \* ---- ghost state of SegSpec
    set_calls,         \* the sequence of completed or attempted set() calls
    prev,              \* the segment before the last call
    \* ---- SegmentMerger
    targets,           \* the default target, or NoTarget
    merger_errors,     \* SegmentMerger.errors
    merged,            \* ghost: the merge() calls so far, in order
    \* ---- build_command
    segment_map,       \* generated_code.segments(): name -> [seg, write]
    keys,              \* the order in which segments().keys() yields the names
    handed,            \* how many of the keys the loop has gone through
    \* ---- codegen()
    prog,              \* the statement list, as indices into the alphabet
    alphabet,          \* which statement alphabet prog indexes
    initial_pc,        \* CodegenOptions.pc
    to_process,        \* the entries of this pass not yet visited
    to_process_len,    \* to_process.len() at the start of the pass
    next_to_process,   \* the entries re-queued by this pass
    error_on_failure,
    errors,            \* Vec<CodegenError>
    symbols,           \* CodegenContext.symbols
    hist,              \* ghost: what each statement did on its visits
    \* ---- parse()
    source,            \* the text handed to parse and to c_comment
    parsed,            \* TRUE once parse has returned
    tokens,            \* the tokens of the parse tree
    parse_errors,      \* the errors parse returns
    unparsed,          \* ghost: the text matched by `rest` in eof
    comment,           \* the result of c_comment on source, once called
    expected,          \* the result of expect(parser, message) on source, once called
    \* ---- lsp/formatting.rs
    rk,                \* the RangeKeeper: [line, character]
    pushed,            \* ghost: the strings pushed on rk, in order
    edits,             \* the chunks diff(old_text, new_text) returned
    edit_idx,          \* idx of get_text_edits
    text_edits         \* result of get_text_edits

vars == << overflow_checks, status, segment, set_calls, prev, targets, merger_errors,
           merged, segment_map, keys, handed, prog, alphabet, initial_pc, to_process, to_process_len,
           next_to_process, error_on_failure, errors, symbols, hist,
           source, parsed, tokens, parse_errors, unparsed, comment, expected,
           rk, pushed, edits, edit_idx, text_edits >>

parseVars == << source, parsed, tokens, parse_errors, unparsed, comment, expected >>
formatVars == << rk, pushed, edits, edit_idx, text_edits >>
segVars == << set_calls, prev >>
buildVars == << segment_map, keys, handed >>
mergeVars == << targets, merger_errors, merged, segment_map, keys, handed >>
codegenVars == << prog, alphabet, initial_pc, to_process, to_process_len,
                  next_to_process, error_on_failure, errors, symbols, hist >>

--------------------------------------------------------------------------
(* Arithmetic helpers *)

AddressSpace == 65536

Min(S) == CHOOSE x \in S : \A y \in S : x <= y
Max(S) == CHOOSE x \in S : \A y \in S : x >= y

RECURSIVE Pow256(_)
Pow256(k) == IF k = 0 THEN 1 ELSE 256 * Pow256(k - 1)

\* The k-th (0-based) little-endian byte of the machine word whose signed reading is v.
ByteOf(v, k) == (v \div Pow256(k)) % 256

\* <int>.to_le_bytes() after `as u8` / `as u16` / `as u32`: the n low bytes of v.
ToLeBytes(v, n) == [k \in 1..n |-> ByteOf(v, k - 1)]

--------------------------------------------------------------------------
(* Segment: core/codegen/segment.rs *)

NoRange == [some |-> FALSE, start |-> 0, end |-> 0]
SomeRange(s, e) == [some |-> TRUE, start |-> s, end |-> e]

\* Segment::new: a zeroed buffer (no address stored: every byte reads 0), no range.
EmptyData == [a \in {} |-> 0]
NewSegment(pc) == [pc |-> pc, range |-> NoRange, data |-> EmptyData]

\* self.data[a] of the 64 KiB array, which starts zeroed.
DataAt(data, a) == IF a \in DOMAIN data THEN data[a] ELSE 0

\* The array after data[index + offset] = byte for every byte of the slice.
StoreBytes(data, index, bytes) ==
    [a \in (DOMAIN data) \cup {index + k - 1 : k \in 1..Len(bytes)} |->
        IF a >= index /\ a < index + Len(bytes) THEN bytes[a - index + 1]
        ELSE data[a]]

\* range.start after `if self.pc.0 < range.start { range.start = self.pc.0 }`
WidenStart(range, pc) == IF pc < range.start THEN pc ELSE range.start

\* range.end after `if self.pc.0 > range.end { range.end = self.pc.0 }`
WidenEnd(end, pc) == IF pc > end THEN pc ELSE end

\* Segment::set. The result is [seg, panic]: panic is TRUE when the call aborts
\* (an index past the array, or `self.pc.0 += length as u16` overflowing in a
\* build with overflow checks); without the checks the u16 addition wraps.
SegmentSet(seg, bytes, checks) ==
    LET pc == seg.pc
        r0 == IF seg.range.some THEN seg.range ELSE SomeRange(pc, pc)
        start == WidenStart(r0, pc)
        len == Len(bytes)
        outOfBounds == len > 0 /\ pc + len - 1 >= AddressSpace
        overflow == pc + len >= AddressSpace
        newPc == (pc + len) % AddressSpace
    IN  IF outOfBounds \/ (overflow /\ checks)
        THEN [seg |-> seg, panic |-> TRUE]
        ELSE [seg |-> [pc |-> newPc,
                       range |-> SomeRange(start, WidenEnd(r0.end, newPc)),
                       data |-> StoreBytes(seg.data, pc, bytes)],
              panic |-> FALSE]

\* A set_current_pc that leaves the PC where it is.
SegmentSetCurrentPc_Keep(seg, pc) == seg

\* Segment::set_current_pc
SegmentSetCurrentPc(seg, pc) == [seg EXCEPT !.pc = pc]

\* Segment::range_data: the bytes of the covered range, in address order.
SegmentRangeData(seg) ==
    IF seg.range.some
    THEN [k \in 1..(seg.range.end - seg.range.start) |->
             DataAt(seg.data, seg.range.start + k - 1)]
    ELSE << >>

--------------------------------------------------------------------------
(* SegmentMerger: core/io/segment_merger.rs *)

\* Segment::target_range is not part of the sources at hand; the merger copies
\* seg.range_data() "into the target at seg.range", so it is the covered range.
TargetRange(seg) == seg.range

NoTarget == [exists |-> FALSE, data |-> EmptyData, range |-> NoRange,
             sources |-> [n \in {} |-> NewSegment(0)]]

\* The Entry::Vacant arm of SegmentMerger::merge
VacantTarget == [NoTarget EXCEPT !.exists = TRUE]

\* The filter of TargetSegment::overlaps_with_sources for one source range sr.
OverlapsWith(new_range, sr) ==
    \/ (new_range.start >= sr.start /\ new_range.start < sr.end)
    \/ (new_range.end > sr.start /\ new_range.end <= sr.end)

\* TargetSegment::overlaps_with_sources: the sources the new range is held to overlap.
OverlapsWithSources(target, new_range) ==
    {n \in DOMAIN target.sources : OverlapsWith(new_range, target.sources[n].range)}

\* A merge that takes the end of the merged segment as the end of the target.
MergedRange_NewEnd(range, target_range) ==
    IF range.some
    THEN SomeRange(IF range.start <= target_range.start THEN range.start
                   ELSE target_range.start,
                   target_range.end)
    ELSE target_range

\* The target's range after TargetSegment::merge
MergedRange(range, target_range) ==
    IF range.some
    THEN SomeRange(IF range.start <= target_range.start THEN range.start
                   ELSE target_range.start,
                   IF range.end >= target_range.end THEN range.end
                   ELSE target_range.end)
    ELSE target_range

\* TargetSegment::merge
TargetSegmentMerge(target, segment_name, seg) ==
    LET target_range == TargetRange(seg)
    IN  [exists |-> TRUE,
         sources |-> [n \in (DOMAIN target.sources) \cup {segment_name} |->
                        IF n = segment_name THEN seg ELSE target.sources[n]],
         data |-> StoreBytes(target.data, target_range.start, SegmentRangeData(seg)),
         range |-> MergedRange(target.range, target_range)]

\* Whether SegmentMerger::merge pushes a BuildError for this segment.
MergeReportsOverlap(target, seg) ==
    /\ TargetRange(seg).some
    /\ OverlapsWithSources(IF target.exists THEN target ELSE VacantTarget,
                           TargetRange(seg)) # {}

\* The target after SegmentMerger::merge
MergeTarget(target, segment_name, seg) ==
    IF TargetRange(seg).some
    THEN TargetSegmentMerge(IF target.exists THEN target ELSE VacantTarget,
                            segment_name, seg)
    ELSE target

--------------------------------------------------------------------------
(* Code generator: core/codegen/mod.rs *)

(* usize values are kept by their signed (i64) reading: a value that wrapped
   below zero in a build without overflow checks is a small negative number
   here, standing for 2^64 minus its magnitude. *)

\* a < b on usize
ULt(a, b) == IF (a >= 0) = (b >= 0) THEN a < b ELSE a >= 0

\* CodegenResult<Option<usize>> of evaluate, or the panic of an aborted run
EvSome(v) == [r |-> "Some", v |-> v, id |-> ""]
EvNone == [r |-> "None", v |-> 0, id |-> ""]
EvErr(id) == [r |-> "Err", v |-> 0, id |-> id]
EvPanic == [r |-> "Panic", v |-> 0, id |-> ""]

\* lhs + rhs, lhs - rhs, lhs * rhs, lhs / rhs on usize
BinaryOp(op, lhs, rhs, checks) ==
    CASE op = "BinaryAdd" ->
           LET overflow == \/ (lhs < 0 /\ rhs < 0)
                           \/ ((lhs < 0) # (rhs < 0) /\ lhs + rhs >= 0)
           IN  IF overflow /\ checks THEN EvPanic ELSE EvSome(lhs + rhs)
      [] op = "BinarySub" ->
           IF ULt(lhs, rhs) /\ checks THEN EvPanic ELSE EvSome(lhs - rhs)
      [] op = "BinaryMul" ->
           LET overflow == \/ (lhs < 0 /\ rhs < 0)
                           \/ (lhs < 0 /\ rhs > 1) \/ (rhs < 0 /\ lhs > 1)
           IN  IF overflow /\ checks THEN EvPanic ELSE EvSome(lhs * rhs)
      [] op = "BinaryDiv" ->
           CASE rhs = 0 -> EvPanic
             [] lhs >= 0 /\ rhs > 0 -> EvSome(lhs \div rhs)
             [] lhs >= 0 /\ rhs < 0 -> EvSome(0)
             [] lhs < 0 /\ rhs < 0 -> EvSome(IF lhs >= rhs THEN 1 ELSE 0)
             [] lhs < 0 /\ rhs = 1 -> EvSome(lhs)

\* The value of an IdentifierValue whose symbol is registered
ModifiedValue(val, modifier) ==
    CASE modifier = "None" -> val
      [] modifier = "HighByte" -> ByteOf(val, 1)
      [] modifier = "LowByte" -> ByteOf(val, 0)

\* CodegenContext::evaluate; cur_pc is self.segments.current().current_pc()
RECURSIVE Evaluate(_, _, _, _, _)
Evaluate(syms, cur_pc, expr, eof, checks) ==
    CASE expr.e = "Number" -> EvSome(expr.n)
      [] expr.e = "CurrentProgramCounter" -> EvSome(cur_pc)
      [] expr.e \in {"BinaryAdd", "BinarySub", "BinaryMul", "BinaryDiv"} ->
           LET lhs == Evaluate(syms, cur_pc, expr.lhs, eof, checks)
           IN  IF lhs.r \in {"Err", "Panic"} THEN lhs
               ELSE LET rhs == Evaluate(syms, cur_pc, expr.rhs, eof, checks)
                    IN  IF rhs.r \in {"Err", "Panic"} THEN rhs
                        ELSE IF lhs.r = "Some" /\ rhs.r = "Some"
                        THEN BinaryOp(expr.e, lhs.v, rhs.v, checks)
                        ELSE EvNone
      [] expr.e = "IdentifierValue" ->
           IF expr.id \in DOMAIN syms
           THEN EvSome(ModifiedValue(syms[expr.id].val, expr.modifier))
           ELSE IF eof THEN EvErr(expr.id) ELSE EvNone
      [] OTHER -> EvPanic

BranchMnemonics == {"Bcc", "Bcs", "Beq", "Bmi", "Bne", "Bpl", "Bvc", "Bvs"}

\* A branch that accepts a distance of 128.
BranchOperand_Upto128(pc, val) ==
    LET offset == val - (pc + 2)
    IN  IF offset >= -128 /\ offset <= 128
        THEN [ok |-> TRUE, val |-> IF offset < 0 THEN offset + 256 ELSE offset % 256]
        ELSE [ok |-> FALSE, val |-> 0]

\* The branch arm of evaluate_operand: the operand byte for a branch emitted at
\* pc to target val, or BranchTooFar.
BranchOperand(pc, val) ==
    LET target_pc == val
        cur_pc == pc + 2
        offset == target_pc - cur_pc
    IN  IF offset >= -128 /\ offset <= 127
        THEN [ok |-> TRUE, val |-> IF offset < 0 THEN offset + 256 ELSE offset]
        ELSE [ok |-> FALSE, val |-> 0]

\* CodegenContext::evaluate_operand: [r, val, err] with r in Ok | Err | Panic
\* and val the Option<usize> handed to the opcode selection.
EvaluateOperand(syms, pc, i, eof, checks) ==
    IF ~i.operand.some
    THEN [r |-> "Ok", val |-> EvNone, err |-> [kind |-> "", id |-> ""]]
    ELSE LET evaluated == Evaluate(syms, pc, i.operand.expr, eof, checks)
         IN  CASE evaluated.r = "Panic" ->
                    [r |-> "Panic", val |-> EvNone, err |-> [kind |-> "", id |-> ""]]
               [] evaluated.r = "Err" ->
                    [r |-> "Err", val |-> EvNone,
                     err |-> [kind |-> "UnknownIdentifier", id |-> evaluated.id]]
               [] evaluated.r = "None" ->
                    [r |-> "Ok", val |-> EvNone, err |-> [kind |-> "", id |-> ""]]
               [] evaluated.r = "Some" ->
                    IF i.mnemonic \in BranchMnemonics
                    THEN LET b == BranchOperand(pc, evaluated.v)
                         IN  IF b.ok
                             THEN [r |-> "Ok", val |-> EvSome(b.val),
                                   err |-> [kind |-> "", id |-> ""]]
                             ELSE [r |-> "Err", val |-> EvNone,
                                   err |-> [kind |-> "BranchTooFar", id |-> ""]]
                    ELSE [r |-> "Ok", val |-> evaluated,
                          err |-> [kind |-> "", id |-> ""]]

\* The rows of the opcode table of emit_instruction for the mnemonics the
\* alphabets use; << >> is the `_ => panic!("Invalid instruction")` arm.
PossibleOpcodes(mnemonic, am, suffix) ==
    LET key == << mnemonic, am, suffix >>
    IN  CASE key = << "Lda", "Immediate", "None" >> -> << <<169, 1>> >>
          [] key = << "Lda", "AbsoluteOrZP", "None" >> -> << <<165, 1>>, <<173, 2>> >>
          [] key = << "Lda", "AbsoluteOrZP", "X" >> -> << <<181, 1>>, <<189, 2>> >>
          [] key = << "Lda", "AbsoluteOrZP", "Y" >> -> << <<185, 2>> >>
          [] key = << "Lda", "Indirect", "X" >> -> << <<161, 1>> >>
          [] key = << "Lda", "OuterIndirect", "Y" >> -> << <<177, 1>> >>
          [] key = << "Stx", "AbsoluteOrZP", "None" >> -> << <<134, 1>>, <<142, 2>> >>
          [] key = << "Stx", "AbsoluteOrZP", "Y" >> -> << <<150, 1>> >>
          [] key = << "Jmp", "AbsoluteOrZP", "None" >> -> << <<76, 2>> >>
          [] key = << "Jmp", "OuterIndirect", "None" >> -> << <<108, 2>> >>
          [] key = << "Bne", "AbsoluteOrZP", "None" >> -> << <<208, 1>> >>
          [] key = << "Beq", "AbsoluteOrZP", "None" >> -> << <<240, 1>> >>
          [] key = << "Nop", "Implied", "None" >> -> << <<234, 0>> >>
          [] OTHER -> << >>

\* The loop "pick the one that best matches the operand's size" for a known
\* value: the bytes of the first candidate that fits, << >> when none does.
RECURSIVE SelectOpcode(_, _)
SelectOpcode(possible_opcodes, val) ==
    IF possible_opcodes = << >> THEN << >>
    ELSE LET opcode == Head(possible_opcodes)[1]
             operand_length == Head(possible_opcodes)[2]
         IN  IF operand_length = 1 /\ ULt(val, 256)
             THEN << opcode, ByteOf(val, 0) >>
             ELSE IF operand_length = 2
             THEN << opcode >> \o ToLeBytes(val, 2)
             ELSE SelectOpcode(Tail(possible_opcodes), val)

\* A placeholder sized by the first candidate.
MaxByLength_First(possible_opcodes) == possible_opcodes[1]

\* possible_opcodes.iter().max_by(len): the last candidate of maximum length.
MaxByLength(possible_opcodes) ==
    LET m == Max({possible_opcodes[k][2] : k \in DOMAIN possible_opcodes})
        k == Max({j \in DOMAIN possible_opcodes : possible_opcodes[j][2] = m})
    IN  possible_opcodes[k]

\* The placeholder of an operand that could not be evaluated yet.
Placeholder(possible_opcodes) ==
    LET c == MaxByLength(possible_opcodes)
    IN  CASE c[2] = 1 -> << c[1], 0 >>
          [] c[2] = 2 -> << c[1], 0, 0 >>
          [] OTHER -> << >>

NonePc == [some |-> FALSE, pc |-> 0]
SomePc(pc) == [some |-> TRUE, pc |-> pc]
NoError == [kind |-> "", id |-> ""]

\* What one call of emit_token gives: r is "Done" (Ok(None)), "Retry"
\* (Ok(Some(pc))), "Err" or "Panic"; at is the address the statement was
\* emitted at and wrote the bytes it handed to Segment::set.
Emitted(r, at, err, seg, syms, wrote) ==
    [r |-> r, at |-> at, err |-> err, seg |-> seg, syms |-> syms, wrote |-> wrote]

\* An emit_instruction that forgets the remembered pc.
StartPc_Current(pc_opt, seg) == seg.pc

\* The address a statement is emitted at: the remembered pc of a re-queued
\* entry, else the segment's current pc.
StartPc(pc_opt, seg) == IF pc_opt.some THEN pc_opt.pc ELSE seg.pc

\* CodegenContext::emit_instruction
EmitInstruction(seg, syms, pc_opt, i, eof, checks) ==
    LET pc == StartPc(pc_opt, seg)
        seg1 == SegmentSetCurrentPc(seg, pc)
        operand == EvaluateOperand(syms, pc, i, eof, checks)
        possible_opcodes ==
            PossibleOpcodes(i.mnemonic,
                            IF i.operand.some THEN i.operand.addressing_mode ELSE "Implied",
                            IF i.operand.some THEN i.operand.suffix ELSE "None")
        expression_is_valid == ~i.operand.some \/ operand.val.r = "Some"
        bytes == IF ~i.operand.some THEN << possible_opcodes[1][1] >>
                 ELSE IF operand.val.r = "Some"
                 THEN SelectOpcode(possible_opcodes, operand.val.v)
                 ELSE Placeholder(possible_opcodes)
        set == SegmentSet(seg1, bytes, checks)
    IN  CASE operand.r = "Panic" -> Emitted("Panic", pc, NoError, seg1, syms, << >>)
          [] operand.r = "Err" -> Emitted("Err", pc, operand.err, seg1, syms, << >>)
          [] possible_opcodes = << >> -> Emitted("Panic", pc, NoError, seg1, syms, << >>)
          [] bytes = << >> -> Emitted("Panic", pc, NoError, seg1, syms, << >>)
          [] set.panic -> Emitted("Panic", pc, NoError, seg1, syms, << >>)
          [] OTHER ->
               Emitted(IF expression_is_valid THEN "Done" ELSE "Retry",
                       pc, NoError, set.seg, syms, bytes)

\* The loop of emit_data from the k-th expression on: each element is
\* evaluated at the PC the elements before it left.
RECURSIVE EmitDataFrom(_, _, _, _, _, _, _, _, _)
EmitDataFrom(seg, syms, pc, exprs, k, data_length, any_failed, eof, checks) ==
    IF k > Len(exprs)
    THEN Emitted(IF any_failed THEN "Retry" ELSE "Done", pc, NoError, seg, syms, << >>)
    ELSE LET evaluated == Evaluate(syms, seg.pc, exprs[k], eof, checks)
             bytes == IF evaluated.r = "Some" THEN ToLeBytes(evaluated.v, data_length)
                      ELSE ToLeBytes(0, data_length)
             set == SegmentSet(seg, bytes, checks)
         IN  CASE evaluated.r = "Panic" -> Emitted("Panic", pc, NoError, seg, syms, << >>)
               [] evaluated.r = "Err" ->
                    Emitted("Err", pc, [kind |-> "UnknownIdentifier", id |-> evaluated.id],
                            seg, syms, << >>)
               [] data_length \notin {1, 2, 4} ->
                    Emitted("Panic", pc, NoError, seg, syms, << >>)
               [] set.panic -> Emitted("Panic", pc, NoError, seg, syms, << >>)
               [] OTHER ->
                    LET rest == EmitDataFrom(set.seg, syms, pc, exprs, k + 1, data_length,
                                             any_failed \/ evaluated.r = "None", eof, checks)
                    IN  [rest EXCEPT !.wrote = bytes \o rest.wrote]

\* CodegenContext::emit_data
EmitData(seg, syms, pc_opt, exprs, data_length, eof, checks) ==
    LET pc == StartPc(pc_opt, seg)
    IN  EmitDataFrom(SegmentSetCurrentPc(seg, pc), syms, pc, exprs, 1, data_length,
                     FALSE, eof, checks)

\* A register_symbol that never refuses.
IsSameType_Always(existing, value) == TRUE

\* std::mem::discriminant(existing) == std::mem::discriminant(&value)
IsSameType(existing, value) == existing.kind = value.kind

\* CodegenContext::register_symbol: [ok, syms]
RegisterSymbol(syms, id, value) ==
    IF id \in DOMAIN syms /\ ~IsSameType(syms[id], value)
    THEN [ok |-> FALSE, syms |-> syms]
    ELSE [ok |-> TRUE,
          syms |-> [n \in (DOMAIN syms) \cup {id} |-> IF n = id THEN value ELSE syms[n]]]

\* The Token::Label arm of emit_token
EmitLabel(seg, syms, pc_opt, id) ==
    LET pc == StartPc(pc_opt, seg)
        reg == RegisterSymbol(syms, id, [kind |-> "Label", val |-> pc])
    IN  IF reg.ok THEN Emitted("Done", pc, NoError, seg, reg.syms, << >>)
        ELSE Emitted("Err", pc, [kind |-> "SymbolRedefinition", id |-> id],
                     seg, syms, << >>)

\* An emit_token without the check for a constant.
IsConstantReassignment_Never(syms, id, ty) == FALSE

\* The guard of the Token::VariableDefinition arm: both the existing and the
\* new symbol are constants.
IsConstantReassignment(syms, id, ty) ==
    id \in DOMAIN syms /\ syms[id].kind = "Constant" /\ ty = "Constant"

\* The Token::VariableDefinition arm of emit_token
EmitVariableDefinition(seg, syms, id, val, ty, eof, checks) ==
    IF IsConstantReassignment(syms, id, ty)
    THEN Emitted("Err", seg.pc, [kind |-> "ConstantReassignment", id |-> id],
                 seg, syms, << >>)
    ELSE LET eval == Evaluate(syms, seg.pc, val, eof, checks)
             reg == RegisterSymbol(syms, id, [kind |-> ty, val |-> eval.v])
         IN  CASE eval.r = "Err" ->
                    Emitted("Err", seg.pc, [kind |-> "UnknownIdentifier", id |-> eval.id],
                            seg, syms, << >>)
               [] eval.r \in {"Panic", "None"} ->
                    Emitted("Panic", seg.pc, NoError, seg, syms, << >>)
               [] ~reg.ok ->
                    Emitted("Err", seg.pc, [kind |-> "SymbolRedefinition", id |-> id],
                            seg, syms, << >>)
               [] OTHER -> Emitted("Done", seg.pc, NoError, seg, reg.syms, << >>)

\* CodegenContext::emit_token
EmitToken(seg, syms, pc_opt, token, eof, checks) ==
    CASE token.t = "Label" -> EmitLabel(seg, syms, pc_opt, token.id)
      [] token.t = "VariableDefinition" ->
           EmitVariableDefinition(seg, syms, token.id, token.val, token.ty, eof, checks)
      [] token.t = "Instruction" -> EmitInstruction(seg, syms, pc_opt, token.i, eof, checks)
      [] token.t = "Data" ->
           EmitData(seg, syms, pc_opt, token.exprs, token.data_length, eof, checks)
      [] OTHER -> Emitted("Done", seg.pc, NoError, seg, syms, << >>)

\* A codegen whose first pass is already final.
InitialErrorOnFailure_True == TRUE

\* `let mut error_on_failure = false` of codegen
InitialErrorOnFailure == FALSE

\* A codegen that never marks a pass as final.
NextErrorOnFailure_Never(eof, next_len, len) == eof

\* error_on_failure after `if next_to_process.len() == to_process_len`
NextErrorOnFailure(eof, next_len, len) == IF next_len = len THEN TRUE ELSE eof

--------------------------------------------------------------------------
(* Bounds and inputs *)

MaxCalls == 3          \* calls on the segment under test
MaxBytes == 2          \* bytes handed to one set()
MaxStart == 3          \* merged segments start at MergeBase .. MergeBase + MaxStart
MaxSegLen == 3         \* merged segments hold 0 .. MaxSegLen bytes
MaxStmts == 3          \* statements of a program
MaxVarStmts == 4       \* statements of a program of VarSpec
MaxBuildStart == 1     \* segments of a build start at MergeBase .. MergeBase + MaxBuildStart
MaxBuildLen == 3       \* segments of a build hold 0 .. MaxBuildLen bytes

\* PCs of the segment under test: the default initial_pc, the PC of the tests, and
\* the two highest addresses.
SegPCs == {8192, 49152, 65534, 65535}
ByteValues == {1, 2}

RECURSIVE SeqsUpTo(_, _)
SeqsUpTo(S, n) ==
    IF n = 0 THEN {<< >>}
    ELSE LET shorter == SeqsUpTo(S, n - 1)
         IN  shorter \cup {Append(q, x) : q \in {r \in shorter : Len(r) = n - 1}, x \in S}

\* The segments the driver hands to the merger, in this order.
SegNames == <<"a", "b", "c">>
MergeBase == 8192

\* A segment that emitted len bytes (each equal to tag) from address start.
EmittedSegment(start, len, tag) ==
    SegmentSet(NewSegment(start), [k \in 1..len |-> tag], FALSE).seg

\* The segments a merge call may be handed: one that emitted nothing, or one
\* that emitted 0..MaxSegLen bytes.
MergeInputs(tag) ==
    {NewSegment(MergeBase)} \cup
    {EmittedSegment(MergeBase + s, l, tag) : s \in 0..MaxStart, l \in 0..MaxSegLen}

--------------------------------------------------------------------------
(* Idle values: each specification leaves the other components untouched *)

NoComment == [called |-> FALSE]
NoExpect == [called |-> FALSE]
ParseIdle ==
    /\ source = << >> /\ parsed = FALSE /\ tokens = << >> /\ parse_errors = << >>
    /\ unparsed = << >> /\ comment = NoComment /\ expected = NoExpect

\* RangeKeeper::new
NewRangeKeeper == [line |-> 0, character |-> 0]
FormatIdle ==
    /\ rk = NewRangeKeeper /\ pushed = << >> /\ edits = << >> /\ edit_idx = 0
    /\ text_edits = << >>
SegIdle == set_calls = << >> /\ prev = [seg |-> NewSegment(0), op |-> "none", bytes |-> << >>, n |-> 0]
BuildIdle == segment_map = << >> /\ keys = << >> /\ handed = 0
MergeIdle == targets = NoTarget /\ merger_errors = << >> /\ merged = << >> /\ BuildIdle
CodegenIdle ==
    /\ prog = << >> /\ alphabet = "none" /\ initial_pc = 0
    /\ to_process = << >> /\ to_process_len = 0 /\ next_to_process = << >>
    /\ error_on_failure = FALSE /\ errors = << >>
    /\ symbols = << >> /\ hist = << >>

--------------------------------------------------------------------------
(* SegSpec: any sequence of set and set_current_pc calls on one segment *)

SegInit ==
    /\ overflow_checks \in BOOLEAN
    /\ status = "running"
    /\ \E pc \in SegPCs : segment = NewSegment(pc)
    /\ set_calls = << >>
    /\ prev = [seg |-> NewSegment(0), op |-> "new", bytes |-> << >>, n |-> 0]
    /\ MergeIdle /\ CodegenIdle /\ ParseIdle /\ FormatIdle

SetCurrentPc ==
    /\ status = "running" /\ prev.n < MaxCalls
    /\ \E pc \in SegPCs :
          /\ segment' = SegmentSetCurrentPc(segment, pc)
          /\ prev' = [seg |-> segment, op |-> "set_current_pc", bytes |-> << >>,
                      n |-> prev.n + 1]
    /\ UNCHANGED << overflow_checks, status, set_calls, mergeVars, codegenVars, parseVars, formatVars >>

Set ==
    /\ status = "running" /\ prev.n < MaxCalls
    /\ \E bytes \in SeqsUpTo(ByteValues, MaxBytes) :
          LET r == SegmentSet(segment, bytes, overflow_checks)
          IN  /\ segment' = r.seg
              /\ status' = IF r.panic THEN "panicked" ELSE status
              /\ set_calls' = Append(set_calls, [pc |-> segment.pc, len |-> Len(bytes)])
              /\ prev' = [seg |-> segment, op |-> "set", bytes |-> bytes, n |-> prev.n + 1]
    /\ UNCHANGED << overflow_checks, mergeVars, codegenVars, parseVars, formatVars >>

SegNext == SetCurrentPc \/ Set

SegSpec == SegInit /\ [][SegNext]_vars

\* C7: after any sequence of set and set_current_pc calls the covered range is
\* None iff set was never called, and otherwise [lowest PC at which a set
\* started, highest PC reached at the end of a set); each set(bytes) returns,
\* stores the bytes at PC..PC+len, leaves PC = old PC + len and every other byte
\* as it was; the range never shrinks.
C7_SetContract ==
    /\ status # "panicked"
    /\ segment.range.some <=> set_calls # << >>
    /\ set_calls # << >> =>
          /\ segment.range.start = Min({set_calls[i].pc : i \in DOMAIN set_calls})
          /\ segment.range.end =
                Max({set_calls[i].pc + set_calls[i].len : i \in DOMAIN set_calls})
    /\ prev.op = "set" =>
          /\ segment.pc = prev.seg.pc + Len(prev.bytes)
          /\ \A k \in 1..Len(prev.bytes) :
                DataAt(segment.data, prev.seg.pc + k - 1) = prev.bytes[k]
          /\ \A a \in (DOMAIN segment.data) \cup (DOMAIN prev.seg.data) :
                (a < prev.seg.pc \/ a >= prev.seg.pc + Len(prev.bytes))
                    => DataAt(segment.data, a) = DataAt(prev.seg.data, a)
    /\ (prev.op \in {"set", "set_current_pc"} /\ prev.seg.range.some) =>
          /\ segment.range.some
          /\ segment.range.start <= prev.seg.range.start
          /\ segment.range.end >= prev.seg.range.end

--------------------------------------------------------------------------
(* MergeSpec: the driver merges the segments of SegNames, in order *)

MergeInit ==
    /\ overflow_checks = FALSE
    /\ status = "running"
    /\ segment = NewSegment(0)
    /\ SegIdle /\ CodegenIdle /\ ParseIdle /\ FormatIdle
    /\ targets = NoTarget /\ merger_errors = << >> /\ merged = << >>
    /\ BuildIdle

\* SegmentMerger::merge(segment_name, segment)
Merge ==
    /\ status = "running"
    /\ Len(merged) < Len(SegNames)
    /\ LET i == Len(merged) + 1
           name == SegNames[i]
       IN  \E seg \in MergeInputs(i) :
             LET overlap == MergeReportsOverlap(targets, seg)
             IN  /\ merger_errors' =
                        IF overlap
                        THEN Append(merger_errors,
                               [segment |-> name,
                                overlaps |-> OverlapsWithSources(targets, TargetRange(seg))])
                        ELSE merger_errors
                 /\ targets' = MergeTarget(targets, name, seg)
                 /\ merged' = Append(merged, [name |-> name, seg |-> seg,
                                              error |-> overlap])
    /\ UNCHANGED << overflow_checks, status, segment, segVars, codegenVars, buildVars, parseVars, formatVars >>

MergeNext == Merge

MergeSpec == MergeInit /\ [][MergeNext]_vars

\* Two half-open ranges share at least one address.
SharesAddress(r1, r2) ==
    /\ r1.some /\ r2.some
    /\ \E a \in r1.start..(r1.end - 1) : a >= r2.start /\ a < r2.end

\* C5: an overlap error is recorded for the segment being merged iff its range
\* [start, end) shares at least one address with the range of a segment merged
\* earlier into the target, for every relative position of the two ranges.
C5_OverlapIffSharedAddress ==
    \A k \in DOMAIN merged :
        merged[k].error <=>
            \E j \in 1..(k - 1) : SharesAddress(merged[j].seg.range, merged[k].seg.range)

PairwiseDisjoint ==
    \A j, k \in DOMAIN merged :
        j < k => ~SharesAddress(merged[j].seg.range, merged[k].seg.range)

Emitting == {k \in DOMAIN merged : merged[k].seg.range.some}

\* C6: after merging pairwise non-overlapping segments the target's range is
\* [lowest start, highest end) of the merged segments, its bytes over each merged
\* segment's range are that segment's range_data, and every other byte inside
\* the target range is zero; merging segments that emitted nothing creates no
\* target and changes nothing.
C6_MergeResult ==
    PairwiseDisjoint =>
        /\ targets.exists <=> Emitting # {}
        /\ Emitting = {} => targets = NoTarget
        /\ Emitting # {} =>
              /\ targets.range.some
              /\ targets.range.start = Min({merged[k].seg.range.start : k \in Emitting})
              /\ targets.range.end = Max({merged[k].seg.range.end : k \in Emitting})
              /\ \A k \in Emitting :
                    \A a \in merged[k].seg.range.start..(merged[k].seg.range.end - 1) :
                        DataAt(targets.data, a) = DataAt(merged[k].seg.data, a)
              /\ \A a \in targets.range.start..(targets.range.end - 1) :
                    (\A k \in Emitting : a < merged[k].seg.range.start
                                          \/ a >= merged[k].seg.range.end)
                        => DataAt(targets.data, a) = 0
              /\ DOMAIN targets.sources = {merged[k].name : k \in Emitting}

\* Three pairwise disjoint merges: two emitting segments with a gap between
\* them, the later one lower in memory, and one segment that emitted nothing.
C6_Witness ==
    /\ Len(merged) = 3
    /\ PairwiseDisjoint
    /\ merged[1].seg.range.some /\ ~merged[2].seg.range.some /\ merged[3].seg.range.some
    /\ merged[3].seg.range.end < merged[1].seg.range.start
    /\ merged[3].seg.range.end > merged[3].seg.range.start
    /\ merged[1].seg.range.end > merged[1].seg.range.start

--------------------------------------------------------------------------
(* codegen(): the programs *)

Num(n) == [e |-> "Number", n |-> n]
Id(name) == [e |-> "IdentifierValue", id |-> name, modifier |-> "None"]
Add(l, r) == [e |-> "BinaryAdd", lhs |-> l, rhs |-> r]
Sub(l, r) == [e |-> "BinarySub", lhs |-> l, rhs |-> r]
Div(l, r) == [e |-> "BinaryDiv", lhs |-> l, rhs |-> r]

Label(name) == [t |-> "Label", id |-> name]
Const(name, expr) == [t |-> "VariableDefinition", id |-> name, val |-> expr, ty |-> "Constant"]
Var(name, expr) == [t |-> "VariableDefinition", id |-> name, val |-> expr, ty |-> "Variable"]
Implied(mnemonic) ==
    [t |-> "Instruction", i |-> [mnemonic |-> mnemonic, operand |-> [some |-> FALSE]]]
Instr(mnemonic, am, expr, suffix) ==
    [t |-> "Instruction",
     i |-> [mnemonic |-> mnemonic,
            operand |-> [some |-> TRUE, expr |-> expr, addressing_mode |-> am,
                         suffix |-> suffix]]]
Data(exprs, data_length) == [t |-> "Data", exprs |-> exprs, data_length |-> data_length]

\* The statements of Spec: labels, definitions, forward and backward
\* references, a name (baz) that nothing defines.
MainAlphabet == <<
    Label("foo"),                                      \* foo:
    Implied("Nop"),                                    \* nop
    Instr("Lda", "AbsoluteOrZP", Id("foo"), "None"),   \* lda foo
    Const("foo", Num(5)),                              \* .const foo = 5
    Const("foo", Add(Id("bar"), Num(1))),              \* .const foo = bar + 1
    Var("bar", Num(300)),                              \* .var bar = 300
    Label("bar"),                                      \* bar:
    Data(<< Id("bar") >>, 1),                          \* .byte bar
    Data(<< Sub(Id("bar"), Id("foo")), Id("baz") >>, 2), \* .word bar - foo, baz
    Instr("Jmp", "AbsoluteOrZP", Id("bar"), "None")    \* jmp bar
>>

\* The statements of BranchSpec: branches to a label and to a variable set
\* around the two ends of the branch range of a program at InitialPc.
BranchAlphabet == <<
    Label("foo"),                                      \* foo:
    Implied("Nop"),                                    \* nop
    Instr("Bne", "AbsoluteOrZP", Id("foo"), "None"),   \* bne foo
    Instr("Beq", "AbsoluteOrZP", Id("far"), "None"),   \* beq far
    Var("far", Num(49281)),                            \* .var far = $c000 + 2 + 127
    Var("far", Num(49282)),                            \* .var far = $c000 + 2 + 128
    Var("far", Num(49026)),                            \* .var far = $c000 + 2 - 128
    Var("far", Num(49025)),                            \* .var far = $c000 + 2 - 129
    Data(<< Id("far") >>, 2)                           \* .word far
>>

\* The statements of DataSpec: data of the three element sizes with values
\* beyond the element size, a subtraction below zero, a division, and a
\* variable that is defined twice and read before and after a forward label.
DataAlphabet == <<
    Data(<< Num(300) >>, 1),                           \* .byte 300
    Data(<< Num(70000), Num(1) >>, 2),                 \* .word 70000, 1
    Data(<< Sub(Num(1), Num(2)) >>, 4),                \* .dword 1 - 2
    Data(<< Div(Num(4), Id("x")) >>, 1),               \* .byte 4 / x
    Var("x", Num(0)),                                  \* .var x = 0
    Var("x", Num(1)),                                  \* .var x = 1
    Data(<< Add(Id("x"), Id("fwd")) >>, 2),            \* .word x + fwd
    Label("fwd"),                                      \* fwd:
    Data(<< Id("x") >>, 1)                             \* .byte x
>>

\* The statements of VarSpec: a variable defined twice, read by a statement
\* that resolves at once and by one that waits for a forward label.
VarAlphabet == <<
    Var("x", Num(1)),                                  \* .var x = 1
    Var("x", Num(2)),                                  \* .var x = 2
    Data(<< Id("x") >>, 1),                            \* .byte x
    Data(<< Id("x"), Id("fwd") >>, 2),                 \* .word x, fwd
    Label("fwd")                                       \* fwd:
>>

Star == [e |-> "CurrentProgramCounter"]

\* The statements of PcSpec: `*` in instruction operands and in data elements,
\* alone and next to a forward label, and an immediate operand that may not
\* fit one byte.
PcAlphabet == <<
    Instr("Lda", "AbsoluteOrZP", Add(Star, Num(3)), "None"),     \* lda * + 3
    Instr("Lda", "AbsoluteOrZP", Sub(Id("fwd"), Star), "None"),  \* lda fwd - *
    Data(<< Star, Sub(Id("fwd"), Star) >>, 2),                   \* .word *, fwd - *
    Label("fwd"),                                                \* fwd:
    Implied("Nop"),                                              \* nop
    Var("v", Num(300)),                                          \* .var v = 300
    Instr("Lda", "Immediate", Id("v"), "None")                   \* lda #v
>>

AlphabetOf(a) ==
    CASE a = "main" -> MainAlphabet
      [] a = "pc" -> PcAlphabet
      [] a = "var" -> VarAlphabet
      [] a = "branch" -> BranchAlphabet
      [] a = "data" -> DataAlphabet

\* CodegenOptions::default().pc
InitialPc == 49152

Stmt(i) == AlphabetOf(alphabet)[prog[i]]

NotVisited == [visited |-> FALSE, first_at |-> 0, slot |-> 0, first_r |-> "",
               last_at |-> 0, last_wrote |-> << >>, last_r |-> ""]

\* The state at the `while` of codegen for program p over alphabet a.
CodegenInitN(a, n) ==
    /\ overflow_checks \in BOOLEAN
    /\ alphabet = a
    /\ prog \in SeqsUpTo(1..Len(AlphabetOf(a)), n)
    /\ initial_pc = InitialPc
    /\ segment = NewSegment(initial_pc)
    /\ symbols = << >>
    /\ to_process = [i \in 1..Len(prog) |-> [pc |-> NonePc, idx |-> i]]
    /\ to_process_len = Len(prog)
    /\ next_to_process = << >>
    /\ error_on_failure = InitialErrorOnFailure
    /\ errors = << >>
    /\ hist = [i \in 1..Len(prog) |-> NotVisited]
    /\ status = IF prog = << >> THEN "ok" ELSE "running"
    /\ SegIdle /\ MergeIdle /\ ParseIdle /\ FormatIdle

CodegenInit(a) == CodegenInitN(a, MaxStmts)

\* One iteration of `for (pc, lt) in to_process` on a token of type t.
Visit(t) ==
    /\ status = "running"
    /\ to_process # << >>
    /\ \E r \in {EmitToken(segment, symbols, Head(to_process).pc,
                            Stmt(Head(to_process).idx), error_on_failure,
                            overflow_checks)} :
       LET entry == Head(to_process)
           token == Stmt(entry.idx)
           h == hist[entry.idx]
       IN  /\ token.t = t
           /\ IF r.r = "Panic"
              THEN /\ status' = "panicked"
                   /\ UNCHANGED << segment, symbols, to_process, next_to_process,
                                   errors, hist >>
              ELSE /\ status' = status
                   /\ segment' = r.seg
                   /\ symbols' = r.syms
                   /\ to_process' = Tail(to_process)
                   /\ next_to_process' =
                        IF r.r = "Retry"
                        THEN Append(next_to_process, [pc |-> SomePc(r.at), idx |-> entry.idx])
                        ELSE next_to_process
                   /\ errors' =
                        IF r.r = "Err"
                        THEN Append(errors, [kind |-> r.err.kind, id |-> r.err.id,
                                             stmt |-> entry.idx])
                        ELSE errors
                   /\ hist' = [hist EXCEPT ![entry.idx] =
                        [visited |-> TRUE,
                         first_at |-> IF h.visited THEN h.first_at ELSE r.at,
                         slot |-> IF h.visited THEN h.slot ELSE Len(r.wrote),
                         first_r |-> IF h.visited THEN h.first_r ELSE r.r,
                         last_at |-> r.at,
                         last_wrote |-> r.wrote,
                         last_r |-> r.r]]
    /\ UNCHANGED << overflow_checks, prog, alphabet, initial_pc, to_process_len,
                    error_on_failure, segVars, mergeVars, parseVars, formatVars >>

VisitLabel == Visit("Label")
VisitVariableDefinition == Visit("VariableDefinition")
VisitInstruction == Visit("Instruction")
VisitData == Visit("Data")

\* The end of the body of `while !to_process.is_empty()`, and the result of
\* codegen when the loop ends.
EndPass ==
    /\ status = "running"
    /\ to_process = << >>
    /\ error_on_failure' =
          NextErrorOnFailure(error_on_failure, Len(next_to_process), to_process_len)
    /\ to_process' = next_to_process
    /\ to_process_len' = Len(next_to_process)
    /\ next_to_process' = << >>
    /\ status' = IF next_to_process # << >> THEN "running"
                 ELSE IF errors = << >> THEN "ok" ELSE "err"
    /\ UNCHANGED << overflow_checks, prog, alphabet, initial_pc, errors, segment,
                    symbols, hist, segVars, mergeVars, parseVars, formatVars >>

Next ==
    \/ VisitLabel
    \/ VisitVariableDefinition
    \/ VisitInstruction
    \/ VisitData
    \/ EndPass

Init == CodegenInit("main")
Spec == Init /\ [][Next]_vars

BranchInit == CodegenInit("branch")
BranchSpec == BranchInit /\ [][Next]_vars

DataInit == CodegenInit("data")

VarInit == CodegenInitN("var", MaxVarStmts)
VarSpec == VarInit /\ [][Next]_vars
DataSpec == DataInit /\ [][Next]_vars

PcInit == CodegenInit("pc")
PcSpec == PcInit /\ [][Next]_vars

\* A step of the loop of codegen() as status and to_process show it: an entry
\* leaves the work list, the pass ends and the next one starts, or codegen
\* returns. Every step of Next is such a step.
LoopStep ==
    /\ status = "running"
    /\ status' \in {"running", "ok", "err", "panicked"}
    /\ to_process' \in {to_process,
                        IF to_process = << >> THEN next_to_process ELSE Tail(to_process)}

\* codegen() is sequential code: while it has not returned, its loop runs on.
LiveSpec == Init /\ [][Next]_vars /\ WF_<< status, to_process >>(LoopStep)

--------------------------------------------------------------------------
(* Properties of codegen() *)

Visited == {i \in DOMAIN prog : hist[i].visited}
Running == status = "running" /\ to_process # << >>
Current == Head(to_process)
CurrentToken == Stmt(Current.idx)

\* The names some statement of the program registers.
DefinedNames ==
    {Stmt(i).id : i \in {j \in DOMAIN prog : Stmt(j).t \in {"Label", "VariableDefinition"}}}

UnknownIdentifierErrors == {k \in DOMAIN errors : errors[k].kind = "UnknownIdentifier"}

\* A statement that was re-queued on its first visit and resolved later.
ResolvedOnRetry(i) == hist[i].first_r = "Retry" /\ hist[i].last_r = "Done"

\* C1: `unknown identifier` is reported for a name only if no statement of the
\* program registers a label, variable or constant of that name; evaluation
\* runs with error_on_failure only once every statement has been visited,
\* after a pass that removed no entry from the work list.
C1_UnknownOnlyIfUndefined ==
    /\ [](\A k \in UnknownIdentifierErrors : errors[k].id \notin DefinedNames)
    /\ [](error_on_failure => Visited = DOMAIN prog)
    /\ [][(~error_on_failure /\ error_on_failure')
            => (to_process = << >> /\ Len(next_to_process) = to_process_len)]_vars

\* A finished run that resolved a forward reference on a retry and reported
\* a name nothing defines.
C1_Witness ==
    /\ status = "err"
    /\ UnknownIdentifierErrors # {}
    /\ \E i \in DOMAIN prog : ResolvedOnRetry(i)

RECURSIVE SlotsBefore(_)
SlotsBefore(i) == IF i <= 1 THEN 0 ELSE SlotsBefore(i - 1) + hist[i - 1].slot

\* The initial PC plus the slot sizes reserved by the statements before i,
\* as a 16-bit address.
LayoutAddress(i) == (initial_pc + SlotsBefore(i)) % AddressSpace

\* The visited label statements that name n.
LabelsOf(n) == {i \in Visited : Stmt(i).t = "Label" /\ Stmt(i).id = n}

\* C3: the address at which a statement is emitted on its first visit is the
\* address of every later visit, and the address recorded for a label is the
\* initial PC plus the slot sizes reserved by the statements before it.
C3_LayoutFixedOnFirstPass ==
    /\ \A i \in Visited :
          /\ hist[i].first_at = LayoutAddress(i)
          /\ hist[i].last_at = hist[i].first_at
    /\ \A n \in DOMAIN symbols :
          symbols[n].kind = "Label" =>
              /\ LabelsOf(n) # {}
              /\ symbols[n].val = LayoutAddress(Max(LabelsOf(n)))

\* A finished run where a statement resolved on a retry precedes a label.
C3_Witness ==
    /\ status = "ok"
    /\ \E i, j \in DOMAIN prog :
          /\ i < j
          /\ ResolvedOnRetry(i) /\ hist[i].slot > 0
          /\ Stmt(j).t = "Label" /\ Stmt(j).id \in DOMAIN symbols
          /\ symbols[Stmt(j).id].kind = "Label"

\* The opcode of the 2-byte candidate of an instruction that has both a
\* 1-byte and a 2-byte candidate, else << >>.
BothCandidates(i) ==
    LET c == PossibleOpcodes(i.mnemonic, i.operand.addressing_mode, i.operand.suffix)
    IN  IF /\ \E k \in DOMAIN c : c[k][2] = 1
           /\ \E k \in DOMAIN c : c[k][2] = 2
        THEN << c[CHOOSE k \in DOMAIN c : c[k][2] = 2][1] >>
        ELSE << >>

\* C4: an instruction whose operand could not be evaluated on its first visit
\* and that has a 1-byte and a 2-byte candidate is finally encoded with the
\* 2-byte candidate, so that the three bytes of its slot hold its encoding.
C4_RetriedUsesAbsolute ==
    \A i \in DOMAIN prog :
        (/\ Stmt(i).t = "Instruction" /\ Stmt(i).i.operand.some
         /\ ResolvedOnRetry(i)
         /\ BothCandidates(Stmt(i).i) # << >>)
        => /\ Len(hist[i].last_wrote) = 3
           /\ hist[i].last_wrote[1] = BothCandidates(Stmt(i).i)[1]
           /\ \A k \in 1..3 :
                DataAt(segment.data, hist[i].first_at + k - 1) = hist[i].last_wrote[k]

Constants == {n \in DOMAIN symbols : symbols[n].kind = "Constant"}

\* C8: a registered constant never changes; a later .const of the same name
\* yields `cannot reassign constant` without evaluating or storing its value.
C8_ConstantsNeverChange ==
    /\ [][\A n \in Constants : n \in DOMAIN symbols' /\ symbols'[n] = symbols[n]]_vars
    /\ [][(/\ Running
           /\ CurrentToken.t = "VariableDefinition" /\ CurrentToken.ty = "Constant"
           /\ CurrentToken.id \in Constants)
          => /\ status' = "running"
             /\ symbols' = symbols
             /\ errors' = Append(errors, [kind |-> "ConstantReassignment",
                                          id |-> CurrentToken.id, stmt |-> Current.idx])]_vars

\* A second .const of a name was refused although its right-hand side names a
\* symbol that is not registered.
C8_Witness ==
    /\ \E k \in DOMAIN errors :
          /\ errors[k].kind = "ConstantReassignment"
          /\ Stmt(errors[k].stmt).val.e = "BinaryAdd"
    /\ "bar" \notin DOMAIN symbols
    /\ "foo" \in Constants

\* The variant the current statement would register under its name, "" for a
\* statement that registers nothing.
CurrentVariant ==
    CASE CurrentToken.t = "Label" -> "Label"
      [] CurrentToken.t = "VariableDefinition" -> CurrentToken.ty
      [] OTHER -> ""

\* C9: registering a symbol under a name that holds a symbol of another
\* variant yields `cannot redefine symbol` and leaves the symbols unchanged;
\* the variant of a name never changes.
C9_VariantNeverChanges ==
    /\ [][\A n \in DOMAIN symbols :
            n \in DOMAIN symbols' /\ symbols'[n].kind = symbols[n].kind]_vars
    /\ [][(/\ Running
           /\ CurrentVariant # ""
           /\ CurrentToken.id \in DOMAIN symbols
           /\ symbols[CurrentToken.id].kind # CurrentVariant
           /\ status' = "running")
          => /\ symbols' = symbols
             /\ errors' = Append(errors, [kind |-> "SymbolRedefinition",
                                          id |-> CurrentToken.id, stmt |-> Current.idx])]_vars

\* A label was refused under the name of a constant, which kept its value.
C9_Witness ==
    \E k \in DOMAIN errors :
        /\ errors[k].kind = "SymbolRedefinition"
        /\ Stmt(errors[k].stmt).t = "Label"
        /\ symbols[errors[k].id] = [kind |-> "Constant", val |-> 5]

\* The current statement is a branch whose target is registered.
BranchResolves ==
    /\ Running
    /\ CurrentToken.t = "Instruction"
    /\ CurrentToken.i.mnemonic \in BranchMnemonics
    /\ CurrentToken.i.operand.expr.id \in DOMAIN symbols

BranchPc == IF Current.pc.some THEN Current.pc.pc ELSE segment.pc
BranchDistance == symbols[CurrentToken.i.operand.expr.id].val - (BranchPc + 2)
BranchOpcode == IF CurrentToken.i.mnemonic = "Bne" THEN 208 ELSE 240

\* C10: a branch emitted at pc to target t, with d = t - (pc + 2): when
\* -128 <= d <= 127 the opcode and the byte d mod 256 are written at pc;
\* otherwise the visit yields `branch too far` and writes no byte; on the
\* first visit and on a retry at the remembered pc alike.
C10_BranchEncoding ==
    [][BranchResolves =>
        IF BranchDistance >= -128 /\ BranchDistance <= 127
        THEN /\ segment'.data =
                  StoreBytes(segment.data, BranchPc, << BranchOpcode, BranchDistance % 256 >>)
             /\ segment'.pc = BranchPc + 2
             /\ errors' = errors
             /\ next_to_process' = next_to_process
        ELSE /\ segment'.data = segment.data
             /\ segment'.range = segment.range
             /\ errors' = Append(errors, [kind |-> "BranchTooFar", id |-> "",
                                          stmt |-> Current.idx])
             /\ next_to_process' = next_to_process]_vars

\* Two branches resolved on a retry: one at distance -128, encoded as 128, and
\* one too far.
C10_Witness ==
    \E i, j \in DOMAIN prog :
        /\ Stmt(i).t = "Instruction"
        /\ Stmt(i).i.mnemonic \in BranchMnemonics
        /\ hist[i].first_r = "Retry" /\ hist[i].last_r = "Done"
        /\ Len(hist[i].last_wrote) = 2 /\ hist[i].last_wrote[2] = 128
        /\ Stmt(j).t = "Instruction"
        /\ Stmt(j).i.mnemonic \in BranchMnemonics
        /\ hist[j].first_r = "Retry" /\ hist[j].last_r = "Err"
        /\ \E k \in DOMAIN errors : errors[k].kind = "BranchTooFar" /\ errors[k].stmt = j

--------------------------------------------------------------------------
(* Properties of emit_data and evaluate *)

\* Every identifier of expr is registered and no divisor of it is zero: expr
\* has a mathematical value.
RECURSIVE MathValue(_, _)
MathValue(syms, expr) ==
    CASE expr.e = "Number" -> expr.n
      [] expr.e = "IdentifierValue" -> syms[expr.id].val
      [] expr.e = "BinaryAdd" -> MathValue(syms, expr.lhs) + MathValue(syms, expr.rhs)
      [] expr.e = "BinarySub" -> MathValue(syms, expr.lhs) - MathValue(syms, expr.rhs)
      [] expr.e = "BinaryDiv" -> MathValue(syms, expr.lhs) \div MathValue(syms, expr.rhs)

RECURSIVE HasMathValue(_, _)
HasMathValue(syms, expr) ==
    CASE expr.e = "Number" -> TRUE
      [] expr.e = "IdentifierValue" -> expr.id \in DOMAIN syms
      [] expr.e \in {"BinaryAdd", "BinarySub"} ->
           HasMathValue(syms, expr.lhs) /\ HasMathValue(syms, expr.rhs)
      [] expr.e = "BinaryDiv" ->
           /\ HasMathValue(syms, expr.lhs) /\ HasMathValue(syms, expr.rhs)
           /\ MathValue(syms, expr.rhs) # 0

\* v mod 2^(8s) in little-endian byte order
RECURSIVE TruncatedLe(_, _)
TruncatedLe(v, s) ==
    IF s = 0 THEN << >> ELSE << v % 256 >> \o TruncatedLe((v - (v % 256)) \div 256, s - 1)

\* The n*s bytes the values of exprs make, in source order
RECURSIVE DataBytes(_, _, _)
DataBytes(syms, exprs, s) ==
    IF exprs = << >> THEN << >>
    ELSE TruncatedLe(MathValue(syms, Head(exprs)), s) \o DataBytes(syms, Tail(exprs), s)

CurrentStart == IF Current.pc.some THEN Current.pc.pc ELSE segment.pc

\* The current statement is a data statement whose values all exist.
DataResolves ==
    /\ Running
    /\ CurrentToken.t = "Data"
    /\ \A k \in DOMAIN CurrentToken.exprs : HasMathValue(symbols, CurrentToken.exprs[k])

\* C11: a data statement with values v1..vn and element size s writes n*s
\* bytes from its start address, the i-th group holding v_i mod 2^(8s) in
\* little-endian order, values beyond the element size and subtractions below
\* zero included.
C11_DataTruncates ==
    [][DataResolves =>
        LET bytes == DataBytes(symbols, CurrentToken.exprs, CurrentToken.data_length)
        IN  /\ status' = "running"
            /\ Len(bytes) = Len(CurrentToken.exprs) * CurrentToken.data_length
            /\ segment'.data = StoreBytes(segment.data, CurrentStart, bytes)
            /\ segment'.pc = CurrentStart + Len(bytes)
            /\ errors' = errors]_vars

\* The same, for a build without overflow checks.
C11_DataTruncatesWrapping ==
    [][(DataResolves /\ ~overflow_checks) =>
        LET bytes == DataBytes(symbols, CurrentToken.exprs, CurrentToken.data_length)
        IN  /\ status' = "running"
            /\ segment'.data = StoreBytes(segment.data, CurrentStart, bytes)
            /\ segment'.pc = CurrentStart + Len(bytes)]_vars

--------------------------------------------------------------------------
(* What codegen() returns *)

\* The MosResult<CodegenContext> of a codegen() that has left its loop:
\* Ok(ctx), or Err(errors.into()), which holds the diagnostics in the order
\* they were pushed and nothing of ctx.
CodegenReturn ==
    IF errors = << >>
    THEN [ok |-> TRUE, segments |-> << segment >>, symbols |-> symbols, errors |-> << >>]
    ELSE [ok |-> FALSE, segments |-> << >>, symbols |-> << >>, errors |-> errors]

Returned == status \in {"ok", "err"}

\* C12: when codegen records a diagnostic, the caller receives the segment
\* map holding the emitted bytes together with the diagnostics.
C12_SegmentMapWithDiagnostics ==
    (Returned /\ errors # << >>) =>
        /\ CodegenReturn.errors = errors
        /\ CodegenReturn.segments = << segment >>

\* C13: the diagnostics codegen returns are ordered by the source position
\* of the statements that produced them.
C13_DiagnosticsInSourceOrder ==
    Returned =>
        \A j, k \in DOMAIN CodegenReturn.errors :
            j < k => CodegenReturn.errors[j].stmt <= CodegenReturn.errors[k].stmt

\* Evaluating expr divides a value by a divisor that evaluates to 0.
RECURSIVE DividesByZero(_, _)
DividesByZero(syms, expr) ==
    CASE expr.e \in {"BinaryAdd", "BinarySub"} ->
           DividesByZero(syms, expr.lhs) \/ DividesByZero(syms, expr.rhs)
      [] expr.e = "BinaryDiv" ->
           \/ DividesByZero(syms, expr.lhs) \/ DividesByZero(syms, expr.rhs)
           \/ /\ HasMathValue(syms, expr.lhs) /\ HasMathValue(syms, expr.rhs)
              /\ MathValue(syms, expr.rhs) = 0
      [] OTHER -> FALSE

\* C14: evaluating an expression whose divisor evaluates to 0 yields a
\* diagnostic for that statement and codegen goes on with the statements
\* that remain; the division never aborts the run.
C14_DivisionByZeroDiagnostic ==
    [][(/\ Running
        /\ CurrentToken.t = "Data"
        /\ \E k \in DOMAIN CurrentToken.exprs : DividesByZero(symbols, CurrentToken.exprs[k]))
       => /\ status' = "running"
          /\ to_process' = Tail(to_process)
          /\ Len(errors') = Len(errors) + 1
          /\ errors'[Len(errors')].stmt = Current.idx]_vars

--------------------------------------------------------------------------
(* Properties of variables *)

\* The .var definitions of n before statement i
VarDefsBefore(i, n) ==
    {j \in 1..(i - 1) : Stmt(j).t = "VariableDefinition" /\ Stmt(j).ty = "Variable"
                         /\ Stmt(j).id = n}

\* The symbols as statement i should see them: every variable holds the
\* value of its nearest definition before i.
SymbolsBefore(i) ==
    [n \in DOMAIN symbols |->
        IF symbols[n].kind = "Variable" /\ VarDefsBefore(i, n) # {}
        THEN [kind |-> "Variable",
              val |-> MathValue(symbols, Stmt(Max(VarDefsBefore(i, n))).val)]
        ELSE symbols[n]]

DefinedVariables == {n \in DOMAIN symbols : symbols[n].kind = "Variable"}

\* C15: a .var may be defined repeatedly, and a statement that references
\* the variable emits the value of the nearest .var before it in source
\* order, whether it is emitted on the first pass or on a later one.
C15_NearestPrecedingVar ==
    [][(/\ DataResolves
        /\ \A n \in DefinedVariables : VarDefsBefore(Current.idx, n) # {})
       => segment'.data =
             StoreBytes(segment.data, CurrentStart,
                        DataBytes(SymbolsBefore(Current.idx), CurrentToken.exprs,
                                  CurrentToken.data_length))]_vars

\* The same for the statements visited for the first time.
C15_NearestPrecedingVarFirstVisit ==
    [][(/\ DataResolves
        /\ ~Current.pc.some
        /\ \A n \in DefinedVariables : VarDefsBefore(Current.idx, n) # {})
       => segment'.data =
             StoreBytes(segment.data, CurrentStart,
                        DataBytes(SymbolsBefore(Current.idx), CurrentToken.exprs,
                                  CurrentToken.data_length))]_vars

--------------------------------------------------------------------------
(* BuildSpec: the merge loop of build_command *)

\* The segments of the generated code; each emits its own byte value.
BuildNames == << "code", "data" >>
NameSet == {BuildNames[k] : k \in DOMAIN BuildNames}
TagOf(name) == CHOOSE k \in DOMAIN BuildNames : BuildNames[k] = name

BuildSegments(tag) ==
    {NewSegment(MergeBase)} \cup
    {EmittedSegment(MergeBase + s, l, tag) : s \in 0..MaxBuildStart, l \in 0..MaxBuildLen}

SegmentMaps ==
    {m \in [NameSet -> [seg : UNION {BuildSegments(k) : k \in DOMAIN BuildNames},
                        write : BOOLEAN]] :
        \A n \in NameSet : m[n].seg \in BuildSegments(TagOf(n))}

\* The orders in which the keys of a HashMap may be iterated: any.
KeyOrders ==
    {o \in [DOMAIN BuildNames -> NameSet] : \A j, k \in DOMAIN o : j # k => o[j] # o[k]}

\* A driver that hands every segment to the merger.
HandsToMerger_Always(entry) == TRUE

\* `if segment.options().write`
HandsToMerger(entry) == entry.write

\* What build_command writes for a target: the start address and range_data
NoOutput == [written |-> FALSE, start |-> 0, bytes |-> << >>]
BuildOutput(target) ==
    IF target.exists /\ target.range.some
    THEN [written |-> TRUE, start |-> target.range.start, bytes |-> SegmentRangeData(target)]
    ELSE NoOutput

BuildInit ==
    /\ overflow_checks = FALSE
    /\ status = "running"
    /\ segment = NewSegment(0)
    /\ SegIdle /\ CodegenIdle /\ ParseIdle /\ FormatIdle
    /\ targets = NoTarget /\ merger_errors = << >> /\ merged = << >>
    /\ segment_map \in SegmentMaps
    /\ keys \in KeyOrders
    /\ handed = 0

\* One iteration of `for segment_name in generated_code.segments().keys()`
BuildMerge ==
    /\ status = "running"
    /\ handed < Len(keys)
    /\ LET name == keys[handed + 1]
           entry == segment_map[name]
           overlap == MergeReportsOverlap(targets, entry.seg)
       IN  IF HandsToMerger(entry)
           THEN /\ merger_errors' =
                      IF overlap
                      THEN Append(merger_errors,
                             [segment |-> name,
                              overlaps |-> OverlapsWithSources(targets,
                                                               TargetRange(entry.seg))])
                      ELSE merger_errors
                /\ targets' = MergeTarget(targets, name, entry.seg)
                /\ merged' = Append(merged, [name |-> name, seg |-> entry.seg,
                                             error |-> overlap])
           ELSE UNCHANGED << targets, merger_errors, merged >>
    /\ handed' = handed + 1
    /\ UNCHANGED << overflow_checks, status, segment, segment_map, keys, segVars,
                    codegenVars, parseVars, formatVars >>

\* `if merger.has_errors() { return Err(..) }`, else the targets are written
BuildFinish ==
    /\ status = "running"
    /\ handed = Len(keys)
    /\ status' = IF merger_errors # << >> THEN "err" ELSE "ok"
    /\ UNCHANGED << overflow_checks, segment, segVars, mergeVars, codegenVars, parseVars, formatVars >>

BuildNext == BuildMerge \/ BuildFinish

BuildSpec == BuildInit /\ [][BuildNext]_vars

\* The result of the merge loop run over the keys in the order given.
RECURSIVE BuildRun(_, _, _, _)
BuildRun(map, order, target, has_errors) ==
    IF order = << >>
    THEN [ok |-> ~has_errors, output |-> IF has_errors THEN NoOutput ELSE BuildOutput(target)]
    ELSE LET name == Head(order)
             entry == map[name]
         IN  IF HandsToMerger(entry)
             THEN BuildRun(map, Tail(order), MergeTarget(target, name, entry.seg),
                           has_errors \/ MergeReportsOverlap(target, entry.seg))
             ELSE BuildRun(map, Tail(order), target, has_errors)

BuildResult ==
    [ok |-> status = "ok", output |-> IF status = "ok" THEN BuildOutput(targets) ELSE NoOutput]

\* C16: two builds of the same segments give the same result, the same
\* failure or the same output bytes, whatever the order in which the driver
\* hands the segments of the segment map to the merger.
C16_BuildIsDeterministic ==
    Returned => \A o \in KeyOrders : BuildRun(segment_map, o, NoTarget, FALSE) = BuildResult

\* The keys the loop has gone through whose segment is writable, in order
Writable(name) == segment_map[name].write
WritableHanded == SelectSeq(SubSeq(keys, 1, handed), Writable)

\* The merger after SegmentMerger::merge of the named segments, in order
RECURSIVE MergeOnly(_, _)
MergeOnly(names, m) ==
    IF names = << >> THEN m
    ELSE LET name == Head(names)
             seg == segment_map[name].seg
         IN  MergeOnly(Tail(names),
                 [targets |-> MergeTarget(m.targets, name, seg),
                  errors |-> IF MergeReportsOverlap(m.targets, seg)
                             THEN Append(m.errors,
                                    [segment |-> name,
                                     overlaps |-> OverlapsWithSources(m.targets,
                                                                      TargetRange(seg))])
                             ELSE m.errors])

\* C17: build_command hands a segment to SegmentMerger::merge iff its write
\* option is true: a segment that is not writable contributes no byte and no
\* range to the target and neither causes nor suffers an overlap error.
C17_OnlyWritableReachMerger ==
    /\ [k \in DOMAIN merged |-> merged[k].name] = WritableHanded
    /\ [targets |-> targets, errors |-> merger_errors]
          = MergeOnly(WritableHanded, [targets |-> NoTarget, errors |-> << >>])
    /\ \A k \in DOMAIN merger_errors :
          /\ Writable(merger_errors[k].segment)
          /\ \A n \in merger_errors[k].overlaps : Writable(n)

\* A finished build where a segment that is not writable covers addresses of
\* the writable one, which alone makes the target.
C17_Witness ==
    /\ status = "ok"
    /\ \E n, m \in NameSet :
          /\ ~Writable(n) /\ Writable(m)
          /\ SharesAddress(segment_map[n].seg.range, segment_map[m].seg.range)
          /\ targets.exists /\ targets.range = segment_map[m].seg.range
          /\ DOMAIN targets.sources = {m}

--------------------------------------------------------------------------
(* The parser (core/parser/mod.rs), on texts over the characters of Chars. *)
(* A text is a sequence of one-character strings.  With these characters   *)
(* the statements that can succeed are labels; every alternative of        *)
(* `statement` that starts with a keyword, a mnemonic or `{` reads its     *)
(* leading trivia and fails, and `* =` fails at the `=`.                   *)

Letters == {"a"}
Stop == {")", "}", "\n", "\r"}
Chars == Letters \cup {":", " ", "/", "*", ")", "\n", "\r"}

\* The pieces the inputs are put together from
Chunks == << <<"a">>, <<":">>, <<" ">>, <<"\n">>, <<"\r">>, <<")">>,
             <<"/", "*">>, <<"*", "/">>, <<"/">> >>

MaxChunks == 4

\* The one element of a one-element set: The({e(x) : x \in {v}}) is e with
\* x standing for the value of v
The(S) == CHOOSE x \in S : TRUE

\* The concatenation of a sequence of sequences
Concat(seqs) ==
    LET C[i \in 0..Len(seqs)] == IF i = 0 THEN << >> ELSE C[i - 1] \o seqs[i]
    IN  C[Len(seqs)]

Flatten(cs) == Concat([i \in 1..Len(cs) |-> Chunks[cs[i]]])

Sources == {Flatten(cs) : cs \in SeqsUpTo(1..Len(Chunks), MaxChunks)}

Text == Seq(Chars)

Take(text, n) == SubSeq(text, 1, n)
Drop(text, n) == SubSeq(text, n + 1, Len(text))
StartsWith(text, p) == Len(text) >= Len(p) /\ Take(text, Len(p)) = p

\* The length of the longest prefix of text made of characters of S
SpanLen(text, S) ==
    CHOOSE n \in 0..Len(text) :
        /\ \A i \in 1..n : text[i] \in S
        /\ n < Len(text) => text[n + 1] \notin S

\* State: the errors reported so far and the ignore-next-error mark
NewState == [errors |-> << >>, ignore |-> FALSE]

report_error(st, err) ==
    IF st.ignore THEN [st EXCEPT !.ignore = FALSE]
    ELSE [st EXCEPT !.errors = Append(@, err)]

ignore_next_error(st) == [st EXCEPT !.ignore = TRUE]

\* A ParseError: its message, the text it quotes, and where its span starts,
\* as the number of characters that follow the start
ParseError(message, text, left) == [message |-> message, text |-> text, left |-> left]

Unterminated == ParseError("unterminated block comment", << >>, 0)

\* No parser reads the State: each parser below returns, next to its result,
\* the calls it makes on the State, in order, and the calls are applied to
\* the State when parse (or the caller of c_comment) is done.
Report(err) == [op |-> "report_error", err |-> err]
IgnoreNext == [op |-> "ignore_next_error"]

ApplyCalls(calls, st0) ==
    LET Run[i \in 0..Len(calls)] ==
            IF i = 0 THEN st0
            ELSE The({IF calls[i].op = "report_error"
                      THEN report_error(st, calls[i].err)
                      ELSE ignore_next_error(st) : st \in {Run[i - 1]}})
    IN  Run[Len(calls)]

\* k times the calls of one ws
Repeat(calls, k) ==
    [i \in 1..(k * Len(calls)) |-> calls[((i - 1) % Len(calls)) + 1]]

\* An expect that reports whatever its message is.
IsEmpty_Never(message) == FALSE

\* message.is_empty()
IsEmpty(message) == message = ""

\* Option<T> of expect
NoneOut == [some |-> FALSE, v |-> << >>]
SomeOut(v) == [some |-> TRUE, v |-> v]

\* fn expect, applied to input: r is what the wrapped parser gives on input. On
\* a failure the error spans nothing and starts where the input starts.
expect(r, error_msg, input) ==
    IF r.ok
    THEN [ok |-> TRUE, out |-> SomeOut(r.out), rest |-> r.rest, calls |-> r.calls]
    ELSE [ok |-> TRUE, out |-> NoneOut, rest |-> input,
          calls |-> r.calls \o (IF IsEmpty(error_msg) THEN << >>
                                ELSE << Report(ParseError(error_msg, << >>, Len(input))) >>)]

\* nom's take(1usize)
take1(input) ==
    IF input = << >> THEN [ok |-> FALSE, out |-> << >>, rest |-> input, calls |-> << >>]
    ELSE [ok |-> TRUE, out |-> Take(input, 1), rest |-> Drop(input, 1), calls |-> << >>]

\* fn c_comment, from the `while count > 0`
c_comment_loop[original_input \in Text, input \in Text, offset \in Nat, count \in Nat] ==
    IF ~(count > 0)
    THEN [ok |-> TRUE, out |-> Take(original_input, offset),
          rest |-> Drop(original_input, offset), calls |-> << >>]
    ELSE The({
         LET new_input == Drop(input, n)
             off == offset + n
         IN  IF StartsWith(new_input, <<"/", "*">>)
             THEN c_comment_loop[original_input, Drop(new_input, 2), off + 2, count + 1]
             ELSE IF StartsWith(new_input, <<"*", "/">>)
             THEN c_comment_loop[original_input, Drop(new_input, 2), off + 2, count - 1]
             ELSE The({
                  IF ~e.out.some
                  \* `rest(ni)` is returned, ni being the input expect hands back
                  THEN [ok |-> TRUE, out |-> e.rest, rest |-> << >>,
                        calls |-> e.calls \o << IgnoreNext >>]
                  ELSE c_comment_loop[original_input, e.rest, off + 1, count]
                  : e \in {expect(take1(new_input), "unterminated block comment",
                                  new_input)}})
         : n \in {SpanLen(input, Chars \ {"/", "*"})}})

c_comment(input) ==
    IF StartsWith(input, <<"/", "*">>)
    THEN c_comment_loop[input, Drop(input, 2), 2, 1]
    ELSE [ok |-> FALSE, out |-> << >>, rest |-> input, calls |-> << >>]

cpp_comment(input) ==
    The({IF n >= 1
         THEN [ok |-> TRUE, out |-> Take(input, 2 + n), rest |-> Drop(input, 2 + n)]
         ELSE [ok |-> FALSE, out |-> << >>, rest |-> input]
         : n \in {IF StartsWith(input, <<"/", "/">>)
                  THEN SpanLen(Drop(input, 2), Chars \ {"\n", "\r"}) ELSE 0}})

Trivia(kind, text) == [kind |-> kind, text |-> text]

trivia_impl(input) ==
    The({IF n >= 1
         THEN [ok |-> TRUE, item |-> Trivia("Whitespace", Take(input, n)),
               rest |-> Drop(input, n), calls |-> << >>]
         ELSE IF c.ok
         THEN [ok |-> TRUE, item |-> Trivia("CStyle", c.out), rest |-> c.rest,
               calls |-> c.calls]
         ELSE IF cpp.ok
         THEN [ok |-> TRUE, item |-> Trivia("CppStyle", cpp.out), rest |-> cpp.rest,
               calls |-> << >>]
         ELSE [ok |-> FALSE, item |-> Trivia("None", << >>), rest |-> input,
               calls |-> << >>]
         : n \in {SpanLen(input, {" "})}, c \in {c_comment(input)},
           cpp \in {cpp_comment(input)}})

\* One element of multiline_trivia: trivia_impl, or a line break, whose
\* characters the NewLine trivia does not keep
TriviaOrNewLine(input) ==
    The({IF t.ok THEN t
         ELSE IF StartsWith(input, <<"\n">>)
         THEN [ok |-> TRUE, item |-> Trivia("NewLine", << >>), rest |-> Drop(input, 1),
               calls |-> << >>]
         ELSE IF StartsWith(input, <<"\r", "\n">>)
         THEN [ok |-> TRUE, item |-> Trivia("NewLine", << >>), rest |-> Drop(input, 2),
               calls |-> << >>]
         ELSE t
         : t \in {trivia_impl(input)}})

\* opt(multiline_trivia): no trivia is the empty list
multiline_trivia[input \in Text] ==
    The({IF t.ok /\ Len(t.rest) < Len(input)
         THEN The({[trivia |-> << t.item >> \o more.trivia, rest |-> more.rest,
                    calls |-> t.calls \o more.calls]
                   : more \in {multiline_trivia[t.rest]}})
         ELSE [trivia |-> << >>, rest |-> input, calls |-> << >>]
         : t \in {TriviaOrNewLine(input)}})

ws(input) == multiline_trivia[input]

Failed(calls) == [ok |-> FALSE, token |-> [kind |-> "None"], rest |-> << >>, calls |-> calls]

\* An alternative that fails at its first keyword, after ws has read the trivia
KeywordFails(input) == Failed(ws(input).calls)

\* fn pc_definition: `*`, then the trivia before an `=` that is never there
pc_definition(input) ==
    The({IF StartsWith(star.rest, <<"*">>)
         THEN Failed(star.calls \o ws(Drop(star.rest, 1)).calls)
         ELSE Failed(star.calls)
         : star \in {ws(input)}})

\* fn label: identifier_name, `:`, and opt(block), whose `{` is never there
label(input) ==
    The({The({The({
         IF n = 0 THEN Failed(id.calls)
         ELSE IF ~StartsWith(colon.rest, <<":">>) THEN Failed(id.calls \o colon.calls)
         ELSE [ok |-> TRUE,
               token |-> [kind |-> "Label", trivia |-> id.trivia, id |-> Take(id.rest, n),
                          colon_trivia |-> colon.trivia],
               rest |-> Drop(colon.rest, 1),
               calls |-> id.calls \o colon.calls \o ws(Drop(colon.rest, 1)).calls]
         : colon \in {ws(Drop(id.rest, n))}})
         : n \in {SpanLen(id.rest, Letters)}})
         : id \in {ws(input)}})

\* fn error
error(input) ==
    The({The({
         LET after == Drop(w.rest, n)
             char == IF after = << >> THEN << >> ELSE << after[1] >>
         IN  IF n = 0 THEN Failed(w.calls)
             ELSE [ok |-> TRUE,
                   token |-> [kind |-> "Error", trivia |-> w.trivia,
                              text |-> Take(w.rest, n) \o char],
                   rest |-> Drop(after, Len(char)),
                   calls |-> Append(w.calls,
                                    Report(ParseError("unexpected", Take(w.rest, n),
                                                      Len(w.rest))))]
         : n \in {SpanLen(w.rest, Chars \ Stop)}})
         : w \in {ws(input)}})

\* fn statement: braces, instruction (two alternatives), variable_definition,
\* const_definition, pc_definition, config_definition, label, data, segment,
\* if_, align, include
statement(input) ==
    The({LET before == Repeat(kw.calls, 5) \o pc.calls \o kw.calls
         IN  IF l.ok THEN [l EXCEPT !.calls = before \o l.calls]
             ELSE Failed(before \o l.calls \o Repeat(kw.calls, 5))
         : kw \in {KeywordFails(input)}, pc \in {pc_definition(input)},
           l \in {label(input)}})

statement_or_error(input) ==
    The({IF s.ok THEN s
         ELSE The({[e EXCEPT !.calls = s.calls \o e.calls] : e \in {error(input)}})
         : s \in {statement(input)}})

\* many0(statement_or_error)
many0_statements[input \in Text] ==
    The({IF ~s.ok THEN [ok |-> TRUE, tokens |-> << >>, rest |-> input, calls |-> s.calls]
         ELSE IF Len(s.rest) = Len(input)
         THEN [ok |-> FALSE, tokens |-> << >>, rest |-> input, calls |-> s.calls]
         ELSE The({[ok |-> more.ok, tokens |-> << s.token >> \o more.tokens,
                    rest |-> more.rest, calls |-> s.calls \o more.calls]
                   : more \in {many0_statements[s.rest]}})
         : s \in {statement_or_error(input)}})

\* fn source_file and fn parse.  eof keeps the trivia before `rest` and not
\* what `rest` matched; unparsed is that text.
parse(text) ==
    The({IF ~m.ok
         THEN [panicked |-> TRUE, tokens |-> << >>, errors |-> << >>, unparsed |-> << >>]
         ELSE The({[panicked |-> FALSE,
                    tokens |-> Append(m.tokens, [kind |-> "Eof", trivia |-> eof.trivia]),
                    errors |-> The({ApplyCalls(calls, NewState).errors
                                    : calls \in {m.calls \o eof.calls}}),
                    unparsed |-> eof.rest]
                   : eof \in {ws(m.rest)}})
         : m \in {many0_statements[text]}})

\* The serialisation of the tokens, each with its leading trivia
TriviaText(items) ==
    Concat([i \in 1..Len(items) |->
               IF items[i].kind = "NewLine" THEN <<"\n">> ELSE items[i].text])

TokenText(token) ==
    CASE token.kind = "Label" ->
            TriviaText(token.trivia) \o token.id \o TriviaText(token.colon_trivia) \o <<":">>
      [] token.kind = "Error" -> TriviaText(token.trivia) \o token.text
      [] token.kind = "Eof" -> TriviaText(token.trivia)

Serialise(toks) == Concat([i \in 1..Len(toks) |-> TokenText(toks[i])])

\* ParseSpec: parse and c_comment applied to every text of Sources

ParseInit ==
    /\ overflow_checks = FALSE
    /\ status = "running"
    /\ segment = NewSegment(0)
    /\ SegIdle /\ MergeIdle /\ CodegenIdle
    /\ source \in Sources
    /\ parsed = FALSE /\ tokens = << >> /\ parse_errors = << >> /\ unparsed = << >>
    /\ comment = NoComment /\ expected = NoExpect
    /\ FormatIdle

CallParse ==
    /\ ~parsed
    /\ LET r == parse(source)
       IN  /\ parsed' = TRUE
           /\ status' = IF r.panicked THEN "panicked" ELSE status
           /\ tokens' = r.tokens
           /\ parse_errors' = r.errors
           /\ unparsed' = r.unparsed
    /\ UNCHANGED << overflow_checks, segment, source, comment, expected, segVars,
                    mergeVars, codegenVars, formatVars >>

CallCComment ==
    /\ ~comment.called
    /\ LET c == c_comment(source)
           st == ApplyCalls(c.calls, NewState)
       IN  comment' = [called |-> TRUE, ok |-> c.ok, out |-> c.out, rest |-> c.rest,
                       errors |-> st.errors, ignore |-> st.ignore]
    /\ UNCHANGED << overflow_checks, status, segment, source, parsed, tokens,
                    parse_errors, unparsed, expected, segVars, mergeVars, codegenVars,
                    formatVars >>

ParseNext == CallParse \/ CallCComment

ParseSpec == ParseInit /\ [][ParseNext]_vars

\* ExpectSpec: expect around take(1), c_comment and cpp_comment, with the empty
\* message of fn instruction and the message of c_comment, on every text of
\* Sources

ExpectMessages == {"", "unterminated block comment"}

Wrapped(parser, input) ==
    CASE parser = "take" -> take1(input)
      [] parser = "c_comment" -> c_comment(input)
      [] parser = "cpp_comment" ->
           The({[ok |-> c.ok, out |-> c.out, rest |-> c.rest, calls |-> << >>]
                : c \in {cpp_comment(input)}})

CallExpect ==
    /\ ~expected.called
    /\ \E parser \in {"take", "c_comment", "cpp_comment"}, message \in ExpectMessages :
          \E r \in {Wrapped(parser, source)} :
             \E e \in {expect(r, message, source)} :
                expected' = [called |-> TRUE, parser |-> parser, message |-> message,
                             inner |-> r, ok |-> e.ok, out |-> e.out, rest |-> e.rest,
                             calls |-> e.calls,
                             before |-> ApplyCalls(r.calls, NewState).errors,
                             errors |-> ApplyCalls(e.calls, NewState).errors]
    /\ UNCHANGED << overflow_checks, status, segment, source, parsed, tokens,
                    parse_errors, unparsed, comment, segVars, mergeVars, codegenVars,
                    formatVars >>

ExpectSpec == ParseInit /\ [][CallExpect]_vars

--------------------------------------------------------------------------
(* Claims about the parser *)

HasErrorToken == \E i \in 1..Len(tokens) : tokens[i].kind = "Error"

\* C18: for every input text, parse errors or not, the serialisation of the
\* tokens parse returns, each with its leading trivia, is the input text.
\* (No text over Chars holds a mnemonic or a directive keyword, so there is
\* no letter case to normalise.)
C18_RoundTrip ==
    (parsed /\ status # "panicked") => Serialise(tokens) = source

\* The round trip does hold when no line break is written with a carriage
\* return, no block comment is unterminated, and eof drops no text.
C18_RoundTripOfPlainText ==
    (/\ parsed /\ status # "panicked"
     /\ unparsed = << >>
     /\ \A i \in 1..Len(source) : source[i] # "\r"
     /\ \A e \in 1..Len(parse_errors) : parse_errors[e] # Unterminated)
    => Serialise(tokens) = source

\* C19: text at a statement position that is not a valid statement always
\* becomes an Error token with a diagnostic: parse leaves no text unparsed,
\* and a tree with an Error token comes with at least one error.
C19_ErrorRecovery ==
    parsed => /\ unparsed = << >>
              /\ HasErrorToken => parse_errors # << >>

\* What does hold: an Error token never comes without an error.
C19_ErrorTokenHasDiagnostic ==
    (parsed /\ HasErrorToken) => parse_errors # << >>

\* The end of the block comment that starts text: the position of the `/` of
\* the `*/` at which the count of `/*` minus `*/`, scanned from the left,
\* is back at zero; 0 if there is none.
RECURSIVE MatchEnd(_, _, _)
MatchEnd(text, pos, count) ==
    IF pos > Len(text) THEN 0
    ELSE IF pos < Len(text) /\ text[pos] = "/" /\ text[pos + 1] = "*"
    THEN MatchEnd(text, pos + 2, count + 1)
    ELSE IF pos < Len(text) /\ text[pos] = "*" /\ text[pos + 1] = "/"
    THEN IF count = 1 THEN pos + 1 ELSE MatchEnd(text, pos + 2, count - 1)
    ELSE MatchEnd(text, pos + 1, count)

CommentEnd(text) == MatchEnd(text, 1, 0)

IsBlockComment == StartsWith(source, <<"/", "*">>)

\* C20: on input that starts with `/*`, c_comment consumes exactly up to the
\* closing `*/` of the first comment; if there is none it records exactly one
\* `unterminated block comment` error and the comment it returns is the rest
\* of the input, and parse reports nothing else for that text.
C20_CComment ==
    IsBlockComment =>
        /\ comment.called =>
              /\ comment.ok
              /\ IF CommentEnd(source) > 0
                 THEN /\ comment.out = Take(source, CommentEnd(source))
                      /\ comment.rest = Drop(source, CommentEnd(source))
                      /\ comment.errors = << >>
                 ELSE /\ comment.errors = << Unterminated >>
                      /\ comment.rest = << >>
                      /\ comment.out = source
        /\ (parsed /\ CommentEnd(source) = 0) => parse_errors = << Unterminated >>

\* What does hold of c_comment: the terminated case, and in the unterminated
\* case the single error and the empty remainder.
C20_CCommentConsumes ==
    (IsBlockComment /\ comment.called) =>
        /\ comment.ok
        /\ IF CommentEnd(source) > 0
           THEN /\ comment.out = Take(source, CommentEnd(source))
                /\ comment.rest = Drop(source, CommentEnd(source))
                /\ comment.errors = << >>
           ELSE /\ comment.errors = << Unterminated >>
                /\ comment.rest = << >>
                /\ comment.ignore
        /\ (parsed /\ CommentEnd(source) = 0) => parse_errors = << Unterminated >>

--------------------------------------------------------------------------
(* Further claims about the merger *)

\* C30: a merge call that records an overlap error leaves the target as it
\* was before the call: its data, its range and its sources.
C30_OverlapLeavesTarget ==
    [][(Len(merged') > Len(merged) /\ merged'[Len(merged')].error)
          => targets' = targets]_vars

--------------------------------------------------------------------------
(* Further claims about Segment::set *)

\* C29: a set of len bytes at a PC with PC + len <= 65536 returns, stores all
\* the bytes, and leaves every address it wrote inside the covered range
\* [range.start, range.end), also when the write ends at the top of the
\* address space.
C29_SetAtTopOfAddressSpace ==
    (prev.op = "set" /\ prev.seg.pc + Len(prev.bytes) <= AddressSpace) =>
        /\ status # "panicked"
        /\ \A k \in 1..Len(prev.bytes) :
              /\ DataAt(segment.data, prev.seg.pc + k - 1) = prev.bytes[k]
              /\ segment.range.some
              /\ segment.range.start <= prev.seg.pc + k - 1
              /\ prev.seg.pc + k - 1 < segment.range.end

\* Below the top of the address space the same does hold.
C29_SetBelowTop ==
    (prev.op = "set" /\ prev.seg.pc + Len(prev.bytes) < AddressSpace) =>
        /\ status # "panicked"
        /\ \A k \in 1..Len(prev.bytes) :
              /\ DataAt(segment.data, prev.seg.pc + k - 1) = prev.bytes[k]
              /\ segment.range.some
              /\ segment.range.start <= prev.seg.pc + k - 1
              /\ prev.seg.pc + k - 1 < segment.range.end


\* C28: the address recorded for a label never changes once the label is
\* registered: a later label statement of the same name does not overwrite it.
C28_LabelAddressNeverChanges ==
    [][\A id \in DOMAIN symbols :
          symbols[id].kind = "Label" =>
              id \in DOMAIN symbols' /\ symbols'[id] = symbols[id]]_vars

\* C24: a .var or .const whose right-hand side cannot be evaluated yet on a
\* pass that is not final does not abort codegen.
C24_ForwardDefinitionDoesNotAbort ==
    [][(/\ Running
        /\ CurrentToken.t = "VariableDefinition"
        /\ ~error_on_failure
        /\ Evaluate(symbols, segment.pc, CurrentToken.val, error_on_failure,
                    overflow_checks).r = "None")
          => status' # "panicked"]_vars


\* The expression with every `*` replaced by the number at.
RECURSIVE PcAs(_, _)
PcAs(expr, at) ==
    CASE expr.e = "CurrentProgramCounter" -> Num(at)
      [] expr.e \in {"BinaryAdd", "BinarySub", "BinaryMul", "BinaryDiv"} ->
           [expr EXCEPT !.lhs = PcAs(expr.lhs, at), !.rhs = PcAs(expr.rhs, at)]
      [] OTHER -> expr

\* The statement with `*` written out as a number: the address at of the
\* opcode in an instruction operand, the address of the k-th element in a
\* data statement that starts at at.
TokenPcAs(token, at) ==
    CASE token.t = "Instruction" /\ token.i.operand.some ->
           [token EXCEPT !.i.operand.expr = PcAs(token.i.operand.expr, at)]
      [] token.t = "Data" ->
           [token EXCEPT !.exprs =
               [k \in DOMAIN token.exprs |->
                   PcAs(token.exprs[k], at + (k - 1) * token.data_length)]]
      [] OTHER -> token

\* C23: on every visit of a statement, the first and each retry, the bytes it
\* emits are those of the same statement with `*` written out as the address
\* of the opcode it got on its first visit (instruction) or as the address of
\* the data element being evaluated (data).
C23_PcIsStatementAddress ==
    [][\A i \in DOMAIN prog :
          (Running /\ Current.idx = i /\ to_process' = Tail(to_process)) =>
              hist'[i].last_wrote =
                  EmitToken(SegmentSetCurrentPc(segment, hist'[i].first_at), symbols,
                            NonePc, TokenPcAs(Stmt(i), hist'[i].first_at),
                            error_on_failure, overflow_checks).wrote]_vars

\* `.word *, fwd - *` behind another statement was re-queued and on its retry
\* emitted its own address and the distance from its second element to fwd.
C23_Witness ==
    \E i \in DOMAIN prog :
        /\ prog[i] = 3
        /\ ResolvedOnRetry(i)
        /\ hist[i].first_at > InitialPc
        /\ "fwd" \in DOMAIN symbols
        /\ symbols["fwd"].val >= hist[i].first_at + 4
        /\ hist[i].last_wrote =
              ToLeBytes(hist[i].first_at, 2)
                  \o ToLeBytes(symbols["fwd"].val - (hist[i].first_at + 2), 2)

\* C25: an instruction whose operand is known, is 256 or more, and whose only
\* candidate takes a one-byte operand records a diagnostic and codegen goes on.
C25_OperandOutOfRange ==
    [][(/\ Running
        /\ CurrentToken.t = "Instruction"
        /\ CurrentToken.i.operand.some
        /\ CurrentToken.i.operand.addressing_mode = "Immediate"
        /\ LET val == Evaluate(symbols, StartPc(Current.pc, segment),
                               CurrentToken.i.operand.expr, error_on_failure,
                               overflow_checks)
           IN  val.r = "Some" /\ val.v >= 256)
          => /\ status' # "panicked"
             /\ Len(errors') = Len(errors) + 1]_vars


\* The addresses whose byte a step changes.
ChangedAddresses ==
    {a \in (DOMAIN segment.data) \cup (DOMAIN segment'.data) :
        DataAt(segment'.data, a) # DataAt(segment.data, a)}

\* C22: the visit of a re-queued statement emits at the pc remembered with
\* the entry, changes bytes only inside [pc, pc + size of the placeholder of
\* its first visit), leaves the PC inside that slot, and leaves the recorded
\* symbols as they were.
C22_RetryWritesOnlyItsSlot ==
    [][(Running /\ Current.pc.some /\ to_process' = Tail(to_process)) =>
          LET i == Current.idx
              pc == Current.pc.pc
          IN  /\ hist'[i].last_at = pc
              /\ pc = hist[i].first_at
              /\ Len(hist'[i].last_wrote) <= hist[i].slot
              /\ \A a \in ChangedAddresses : pc <= a /\ a < pc + hist[i].slot
              /\ segment'.pc >= pc /\ segment'.pc <= pc + hist[i].slot
              /\ symbols' = symbols]_vars

\* A statement was resolved on a retry that changed a byte of its slot, and a
\* statement behind it holds bytes of its own.
C22_Witness ==
    \E i, j \in DOMAIN prog :
        /\ ResolvedOnRetry(i)
        /\ hist[i].last_wrote # << >>
        /\ \E k \in 1..Len(hist[i].last_wrote) : hist[i].last_wrote[k] # 0
        /\ hist[j].visited
        /\ hist[j].first_at >= hist[i].first_at + hist[i].slot
        /\ hist[j].slot > 0
        /\ segment.pc < hist[j].first_at + hist[j].slot


--------------------------------------------------------------------------
(* lsp/formatting.rs: RangeKeeper and get_text_edits *)

MaxPushes == 3         \* strings pushed on one RangeKeeper
MaxPushLen == 2        \* bytes of one pushed string
MaxEdits == 3          \* chunks of one diff
MaxChunkLen == 2       \* bytes of the text of one chunk

FormatChars == {"a", "b", "\n"}

\* The strings of at most n bytes over the characters C
Strings(C, n) == UNION {[1..k -> C] : k \in 0..n}

\* A find that returns the last newline.
Find_Last(str) ==
    IF \E i \in 1..Len(str) : str[i] = "\n"
    THEN Max({i \in 1..Len(str) : str[i] = "\n"}) - 1
    ELSE -1

\* str.find('\n'): the index of the first newline, -1 for None
Find(str) ==
    IF \E i \in 1..Len(str) : str[i] = "\n"
    THEN Min({i \in 1..Len(str) : str[i] = "\n"}) - 1
    ELSE -1

\* RangeKeeper::push
RECURSIVE push(_, _)
push(self, str) ==
    The({IF newline_idx >= 0
         THEN push([line |-> self.line + 1, character |-> 0], Drop(str, newline_idx + 1))
         ELSE [self EXCEPT !.character = @ + Len(str)]
         : newline_idx \in {Find(str)}})

\* fn rng
rng(start_line, start_column, end_line, end_column) ==
    [start |-> [line |-> start_line, character |-> start_column],
     end |-> [line |-> end_line, character |-> end_column]]

\* RangeKeeper::to_range
to_range(self, str) ==
    The({rng(self.line, self.character, end_rk.line, end_rk.character)
         : end_rk \in {push(self, str)}})

\* dissimilar::Chunk
Chunk(kind, str) == [kind |-> kind, str |-> str]
TextEdit(range, new_text) == [range |-> range, new_text |-> new_text]

\* What diff returns: chunks with text, no two of one kind in a row, and a
\* deletion before the insertion that replaces it.
Diffs ==
    LET chunks == {Chunk(kind, str) : kind \in {"Equal", "Insert", "Delete"},
                                      str \in Strings(FormatChars, MaxChunkLen) \ {<< >>}}
    IN  {d \in SeqsUpTo(chunks, MaxEdits) :
            \A i \in 1..(Len(d) - 1) :
                /\ d[i].kind # d[i + 1].kind
                /\ ~(d[i].kind = "Insert" /\ d[i + 1].kind = "Delete")}

\* The texts a diff is the diff of
KindsText(d, kinds) ==
    Concat([i \in 1..Len(d) |-> IF d[i].kind \in kinds THEN d[i].str ELSE << >>])
old_text == KindsText(edits, {"Equal", "Delete"})
new_text == KindsText(edits, {"Equal", "Insert"})

\* RkSpec: strings pushed on a new RangeKeeper

RkInit ==
    /\ overflow_checks = FALSE
    /\ status = "running"
    /\ segment = NewSegment(0)
    /\ SegIdle /\ MergeIdle /\ CodegenIdle /\ ParseIdle
    /\ rk = NewRangeKeeper /\ pushed = << >>
    /\ edits = << >> /\ edit_idx = 0 /\ text_edits = << >>

RkPush ==
    /\ Len(pushed) < MaxPushes
    /\ \E str \in Strings({"a", "\n"}, MaxPushLen) :
          /\ rk' = push(rk, str)
          /\ pushed' = Append(pushed, str)
    /\ UNCHANGED << overflow_checks, status, segment, edits, edit_idx, text_edits,
                    segVars, mergeVars, codegenVars, parseVars >>

RkSpec == RkInit /\ [][RkPush]_vars

\* FormatSpec: the loop of get_text_edits over every diff of Diffs

FormatInit ==
    /\ overflow_checks = FALSE
    /\ status = "running"
    /\ segment = NewSegment(0)
    /\ SegIdle /\ MergeIdle /\ CodegenIdle /\ ParseIdle
    /\ rk = NewRangeKeeper /\ pushed = << >>
    /\ edits \in Diffs /\ edit_idx = 0 /\ text_edits = << >>

\* The guard of the third arm: a deletion followed by an insertion as long
IsReplace ==
    /\ edits[edit_idx + 1].kind = "Delete"
    /\ edit_idx + 2 <= Len(edits)
    /\ edits[edit_idx + 2].kind = "Insert"
    /\ Len(edits[edit_idx + 1].str) = Len(edits[edit_idx + 2].str)

StepEqual ==
    /\ edit_idx < Len(edits)
    /\ edits[edit_idx + 1].kind = "Equal"
    /\ rk' = push(rk, edits[edit_idx + 1].str)
    /\ edit_idx' = edit_idx + 1
    /\ UNCHANGED << overflow_checks, status, segment, pushed, edits, text_edits,
                    segVars, mergeVars, codegenVars, parseVars >>

StepInsert ==
    /\ edit_idx < Len(edits)
    /\ edits[edit_idx + 1].kind = "Insert"
    /\ text_edits' = Append(text_edits,
                            TextEdit(to_range(rk, << >>), edits[edit_idx + 1].str))
    /\ edit_idx' = edit_idx + 1
    /\ UNCHANGED << overflow_checks, status, segment, rk, pushed, edits,
                    segVars, mergeVars, codegenVars, parseVars >>

StepReplace ==
    /\ edit_idx < Len(edits)
    /\ IsReplace
    /\ text_edits' = Append(text_edits,
                            TextEdit(to_range(rk, edits[edit_idx + 1].str),
                                     edits[edit_idx + 2].str))
    /\ edit_idx' = edit_idx + 2
    /\ UNCHANGED << overflow_checks, status, segment, rk, pushed, edits,
                    segVars, mergeVars, codegenVars, parseVars >>

StepDelete ==
    /\ edit_idx < Len(edits)
    /\ edits[edit_idx + 1].kind = "Delete"
    /\ ~IsReplace
    /\ text_edits' = Append(text_edits,
                            TextEdit(to_range(rk, edits[edit_idx + 1].str), << >>))
    /\ edit_idx' = edit_idx + 1
    /\ UNCHANGED << overflow_checks, status, segment, rk, pushed, edits,
                    segVars, mergeVars, codegenVars, parseVars >>

FormatNext == StepEqual \/ StepInsert \/ StepReplace \/ StepDelete

FormatSpec == FormatInit /\ [][FormatNext]_vars

--------------------------------------------------------------------------
(* Claims about lsp/formatting.rs *)

Newlines(text) == {i \in 1..Len(text) : text[i] = "\n"}

\* C27: after pushing strings s1, ..., sn the RangeKeeper is what one push of
\* their concatenation gives: line is the number of newlines pushed, and
\* character the number of bytes pushed after the last newline, or since the
\* start when there is none.
C27_PushIsCompositional ==
    LET text == Concat(pushed)
    IN  /\ rk = push(NewRangeKeeper, text)
        /\ rk.line = Cardinality(Newlines(text))
        /\ rk.character = Len(text) - Max(Newlines(text) \cup {0})

\* Three strings were pushed: the first ends in the middle of a line, the
\* second holds a newline and text behind it, the third goes on on that line.
C27_Witness ==
    /\ Len(pushed) = 3
    /\ pushed[1] # << >> /\ Newlines(pushed[1]) = {}
    /\ Newlines(pushed[2]) = {1} /\ Len(pushed[2]) = 2
    /\ pushed[3] # << >> /\ Newlines(pushed[3]) = {}
    /\ rk.line = 1 /\ rk.character = 1 + Len(pushed[3])

\* The (line, character) of the offset-th byte of text
PositionAt(text, offset) == push(NewRangeKeeper, Take(text, offset))

\* The offset in text of a position, -1 when the text has no such position
OffsetAt(text, position) ==
    LET offsets == {o \in 0..Len(text) : PositionAt(text, o) = position}
    IN  IF offsets = {} THEN -1 ELSE Min(offsets)

\* text after the edits, whose ranges are all read in text: [ok, out]. The
\* edits come in the order of their ranges and do not overlap; an insertion
\* may stand at the start of the edit before it, and its text then follows
\* that edit's.
ApplyEdits(text, es) ==
    LET Run[k \in 0..Len(es)] ==
            IF k = 0 THEN [ok |-> TRUE, out |-> << >>, from |-> 0, at |-> 0]
            ELSE The({
                 CASE ~before.ok \/ from < 0 \/ to < from ->
                        [ok |-> FALSE, out |-> << >>, from |-> 0, at |-> 0]
                   [] from >= before.at ->
                        [ok |-> TRUE,
                         out |-> before.out \o SubSeq(text, before.at + 1, from)
                                    \o es[k].new_text,
                         from |-> from, at |-> to]
                   [] k > 1 /\ from = before.from /\ to = from ->
                        [ok |-> TRUE, out |-> before.out \o es[k].new_text,
                         from |-> from, at |-> before.at]
                   [] OTHER -> [ok |-> FALSE, out |-> << >>, from |-> 0, at |-> 0]
                 : before \in {Run[k - 1]},
                   from \in {OffsetAt(text, es[k].range.start)},
                   to \in {OffsetAt(text, es[k].range.end)}})
        last == Run[Len(es)]
    IN  [ok |-> last.ok,
         out |-> IF last.ok THEN last.out \o Drop(text, last.at) ELSE << >>]

\* C21: when get_text_edits returns, its edits, all read as ranges in
\* old_text, turn old_text into new_text, for every sequence of Equal, Insert
\* and Delete chunks.
C21_EditsTurnOldIntoNew ==
    (edit_idx = Len(edits)) =>
        ApplyEdits(old_text, text_edits) = [ok |-> TRUE, out |-> new_text]

\* The edits do turn old_text into new_text when the chunks behind a deletion
\* make no edit but the insertion right behind it.
C21_EditsWithoutEditAfterDelete ==
    (/\ edit_idx = Len(edits)
     /\ \A i, j \in 1..Len(edits) :
           (edits[i].kind = "Delete" /\ j > i) =>
               edits[j].kind = "Equal" \/ (j = i + 1 /\ edits[j].kind = "Insert"))
        => ApplyEdits(old_text, text_edits) = [ok |-> TRUE, out |-> new_text]

====
